---- MODULE Spec2Model ----
(***************************************************************************)
(* checkloc: validation of Mozilla-style localization trees.               *)
(*                                                                         *)
(* The model follows src/checkloc/checkloc.py:                             *)
(*   - LocalizationLanguage (get_loc_keys, _parse_properties_file)         *)
(*   - ManifestSet (validate_manifests, get_loc_base_dirs)                 *)
(*   - CheckLoc (validate_loc_files, _log_message)                         *)
(*                                                                         *)
(* A text is a sequence of one-character strings; the pseudo character     *)
(* "BOM" stands for the UTF-8 byte-order mark.  A path is a sequence of    *)
(* names from the file system root.  A composite key 'file/key' is the     *)
(* pair <<file name, local key>>; file names never hold the separator.     *)
(* Diagnostics are kept in a bag: the order in which Python walks          *)
(* dictionaries and directories is not part of the behaviour.              *)
(***************************************************************************)
EXTENDS Integers, Sequences, FiniteSets, Bags, TLC

(***************************************************************************)
(* Bounds of the model.                                                    *)
(***************************************************************************)
\* number of target locale folders a tree may hold besides the baseline
MaxTargets == 2
\* number of records of a generated property file
MaxRecords == 2

(***************************************************************************)
(* Characters.                                                             *)
(***************************************************************************)
\* the line terminators [\n\r\f] of PROP_SEP / PROP_COMMENT / PROP_LINE
Terminators == {"\n", "\r", "\f"}

\* what \s and str.strip() treat as white space
Whitespace == {" ", "\t"} \cup Terminators

Digits == {"0", "1", "2", "3", "4", "5", "6", "7", "8", "9"}

Letters ==
    {"a", "b", "c", "d", "e", "f", "g", "h", "i", "j", "k", "l", "m",
     "n", "o", "p", "q", "r", "s", "t", "u", "v", "w", "x", "y", "z",
     "A", "B", "C", "D", "E", "F", "G", "H", "I", "J", "K", "L", "M",
     "N", "O", "P", "Q", "R", "S", "T", "U", "V", "W", "X", "Y", "Z"}

\* the character class of the key group of PROP_LINE ("BACKQUOTE" is the
\* grave accent, which cannot be written in a string here)
KeyChars ==
    Letters \cup Digits \cup
    {"_", ".", "-", "+", "\\", "{", "}", "[", "]", "!", "@", "#", "$",
     "%", "^", "&", "*", "(", ")", "/", "<", ">", ",", "?", ";", "'",
     "\"", "BACKQUOTE", "~", "|"}

\* the separator class [=:] of PROP_LINE
PropSeparators == {"=", ":"}

\* codecs.BOM_UTF8, one pseudo character
BOM == "BOM"

\* LocalizationLanguage.MOZILLA_MAX_PROPERTIES_STRING_SUBS
MOZILLA_MAX_PROPERTIES_STRING_SUBS == 10

\* CheckLoc.BASE_LOC
BASE_LOC == "en-US"

(***************************************************************************)
(* Sequences.                                                              *)
(***************************************************************************)
Range(s) == {s[i] : i \in DOMAIN s}

\* s[from:] of Python, from counted from 0
Drop(s, from) == SubSeq(s, from + 1, Len(s))

\* number of leading elements of s that lie in set
RECURSIVE SpanLen(_, _)
SpanLen(s, set) ==
    IF s # <<>> /\ Head(s) \in set THEN 1 + SpanLen(Tail(s), set) ELSE 0

\* number of trailing elements of s that lie in set
RECURSIVE SpanLenBack(_, _)
SpanLenBack(s, set) ==
    IF s # <<>> /\ s[Len(s)] \in set
    THEN 1 + SpanLenBack(SubSeq(s, 1, Len(s) - 1), set) ELSE 0

\* str.strip()
Strip(s) ==
    LET lead == SpanLen(s, Whitespace)
    IN  IF lead = Len(s) THEN <<>>
        ELSE SubSeq(s, lead + 1, Len(s) - SpanLenBack(s, Whitespace))

\* str.find(ch, start): least offset (from 0) >= start holding ch, else -1
RECURSIVE Find(_, _, _)
Find(s, ch, start) ==
    IF start >= Len(s) THEN -1
    ELSE IF s[start + 1] = ch THEN start
    ELSE Find(s, ch, start + 1)

\* all orders in which the elements of a finite set can be enumerated
RECURSIVE Orders(_)
Orders(S) ==
    IF S = {} THEN {<<>>}
    ELSE UNION {{<<x>> \o rest : rest \in Orders(S \ {x})} : x \in S}

\* list.sort() on a list of integers
RECURSIVE Insert(_, _)
Insert(x, sorted) ==
    IF sorted = <<>> THEN <<x>>
    ELSE IF x <= Head(sorted) THEN <<x>> \o sorted
    ELSE <<Head(sorted)>> \o Insert(x, Tail(sorted))

RECURSIVE Sort(_)
Sort(s) == IF s = <<>> THEN <<>> ELSE Insert(Head(s), Sort(Tail(s)))

DigitVal ==
    [c \in Digits |->
        CASE c = "0" -> 0 [] c = "1" -> 1 [] c = "2" -> 2 [] c = "3" -> 3
          [] c = "4" -> 4 [] c = "5" -> 5 [] c = "6" -> 6 [] c = "7" -> 7
          [] c = "8" -> 8 [] c = "9" -> 9]

\* int() of a string of decimal digits
RECURSIVE ParseInt(_)
ParseInt(ds) ==
    IF ds = <<>> THEN 0
    ELSE 10 * ParseInt(SubSeq(ds, 1, Len(ds) - 1)) + DigitVal[ds[Len(ds)]]

(***************************************************************************)
(* Diagnostics.  _log_message receives a text; the model keeps what the    *)
(* text is built from.                                                     *)
(***************************************************************************)
NoPath == <<>>
NoKey == <<>>
NoSigs == <<>>
MainLang == "Main"

Msg(level, kind, lang, path, key, pos, sigs) ==
    [level |-> level, kind |-> kind, lang |-> lang, path |-> path,
     key |-> key, pos |-> pos, sigs |-> sigs]

ErrorMsg(kind, lang, path, key) ==
    Msg("error", kind, lang, path, key, -1, NoSigs)

WarningMsg(kind, lang, path, key) ==
    Msg("warning", kind, lang, path, key, -1, NoSigs)

\* number of diagnostics of a bag that satisfy a test
CountMsgs(bag, Test(_)) ==
    BagCardinality([m \in {x \in DOMAIN bag : Test(x)} |-> bag[m]])

IsError(m) == m.level = "error"
IsWarning(m) == m.level = "warning"

NumErrors(bag) == CountMsgs(bag, IsError)
NumWarnings(bag) == CountMsgs(bag, IsWarning)

AddMsg(bag, m) == bag (+) SetToBag({m})

(***************************************************************************)
(* LocalizationLanguage.                                                   *)
(***************************************************************************)
\* LocalizationLanguage.__init__; log holds what the object passed to the
\* two logging callbacks it was given
NewLanguage(loc_dir, language) ==
    [keys |-> <<>>, subs |-> <<>>, loc_dir |-> loc_dir, name |-> language,
     parsing_errors |-> FALSE, log |-> EmptyBag, raised |-> FALSE]

\* variant: the error is logged and the flag is left as it is
LangLogErrorNoFlag(ll, m) == [ll EXCEPT !.log = AddMsg(ll.log, m)]

\* LocalizationLanguage._log_error
LangLogError(ll, m) ==
    [ll EXCEPT !.parsing_errors = TRUE, !.log = AddMsg(ll.log, m)]

\* the _log_warning callback handed to LocalizationLanguage
LangLogWarning(ll, m) == [ll EXCEPT !.log = AddMsg(ll.log, m)]

\* dict[key] = value
Put(map, key, value) ==
    [k \in DOMAIN map \cup {key} |-> IF k = key THEN value ELSE map[k]]

(***************************************************************************)
(* _parse_properties_file: the text of a file.                             *)
(***************************************************************************)
\* PROP_COMMENT tried at offset i of text (re.MULTILINE): the offset just
\* after the match, or -1 when there is no match at i.  '^' holds at the
\* start of the text and right after a newline only; \s* may run over line
\* terminators; the comment has to end in at least one terminator.
CommentMatchEnd(text, i) ==
    IF ~(i = 0 \/ text[i] = "\n") THEN -1
    ELSE LET afterWs   == i + SpanLen(Drop(text, i), Whitespace)
             marks     == SpanLen(Drop(text, afterWs), {"#", "!"})
             afterMark == afterWs + marks
             body      == SpanLen(Drop(text, afterMark),
                                  Range(text) \ Terminators)
             afterBody == afterMark + body
             terms     == SpanLen(Drop(text, afterBody), Terminators)
         IN  IF marks >= 1 /\ terms >= 1 THEN afterBody + terms ELSE -1

\* re.sub(PROP_COMMENT, '', data) from offset i on
RECURSIVE StripCommentsFrom(_, _)
StripCommentsFrom(text, i) ==
    IF i >= Len(text) THEN <<>>
    ELSE LET e == CommentMatchEnd(text, i)
         IN  IF e # -1 THEN StripCommentsFrom(text, e)
             ELSE <<text[i + 1]>> \o StripCommentsFrom(text, i + 1)

StripComments(text) == StripCommentsFrom(text, 0)

\* re.split(PROP_SEP, data): every single terminator ends a segment
RECURSIVE SplitLines(_)
SplitLines(text) ==
    LET n == SpanLen(text, Range(text) \ Terminators)
    IN  IF n = Len(text) THEN <<text>>
        ELSE <<SubSeq(text, 1, n)>> \o SplitLines(Drop(text, n + 1))

\* PROP_LINE.match(line): [ok, key, value]
PropLineMatch(line) ==
    LET ws1      == SpanLen(line, Whitespace)
        keyLen   == SpanLen(Drop(line, ws1), KeyChars)
        afterKey == ws1 + keyLen
        ws2      == SpanLen(Drop(line, afterKey), Whitespace)
        sepAt    == afterKey + ws2
        hasSep   == sepAt < Len(line) /\ line[sepAt + 1] \in PropSeparators
        ws3      == SpanLen(Drop(line, sepAt + 1), Whitespace)
        rest     == Drop(line, sepAt + 1 + ws3)
    IN  IF keyLen >= 1 /\ hasSep
        THEN [ok |-> TRUE, key |-> SubSeq(line, ws1 + 1, afterKey),
              value |-> SubSeq(rest, 1,
                               SpanLen(rest, Range(rest) \ Terminators))]
        ELSE [ok |-> FALSE, key |-> <<>>, value |-> <<>>]

\* variant: any character after the '%' is taken for the trailing S
PlaceholderMatchAnyLetter(value, pos) ==
    LET s == Drop(value, pos)
    IN  IF Len(s) >= 2 /\ s[1] = "%"
        THEN [ok |-> TRUE, group |-> <<>>]
        ELSE [ok |-> FALSE, group |-> <<>>]

\* re.match(r'%([0-9]+\$)?S', value[pos:]): [ok, group], group being the
\* text of the optional (digits and dollar) group, empty when it is absent
PlaceholderMatch(value, pos) ==
    LET s      == Drop(value, pos)
        nd     == SpanLen(Drop(s, 1), Digits)
        numOk  == /\ nd >= 1
                  /\ Len(s) >= nd + 3
                  /\ s[nd + 2] = "$"
                  /\ s[nd + 3] = "S"
        anonOk == Len(s) >= 2 /\ s[2] = "S"
    IN  IF s = <<>> \/ s[1] # "%" THEN [ok |-> FALSE, group |-> <<>>]
        ELSE IF numOk THEN [ok |-> TRUE, group |-> SubSeq(s, 2, nd + 2)]
        ELSE IF anonOk THEN [ok |-> TRUE, group |-> <<>>]
        ELSE [ok |-> FALSE, group |-> <<>>]

\* variant: the escape sequence does not move pos before the next search
ScanStepEscapeNotSkipped(value, sc) ==
    LET pos    == sc.pos
        pmatch == PlaceholderMatch(value, pos)
    IN  IF (pos + 1 < Len(value)) /\ value[pos + 2] = "%"
        THEN [sc EXCEPT !.pos = Find(value, "%", pos + 1),
                        !.steps = @ + 1]
        ELSE IF pmatch.ok
        THEN IF pmatch.group # <<>>
             THEN [sc EXCEPT
                     !.numeric_subs_list =
                         Append(@, ParseInt(SubSeq(pmatch.group, 1,
                                                   Len(pmatch.group) - 1))),
                     !.pos = Find(value, "%",
                                  pos + 1 + Len(pmatch.group) + 1),
                     !.steps = @ + 1]
             ELSE [sc EXCEPT !.regular_subs = @ + 1,
                             !.pos = Find(value, "%", pos + 1 + 1),
                             !.steps = @ + 1]
        ELSE [sc EXCEPT !.valid = FALSE, !.steps = @ + 1]

\* one iteration of the while loop of the placeholder scan.  sc is
\* [pos, numeric_subs_list, regular_subs, valid, steps]
ScanStep(value, sc) ==
    LET pos    == sc.pos
        pmatch == PlaceholderMatch(value, pos)
    IN  IF (pos + 1 < Len(value)) /\ value[pos + 2] = "%"
        THEN [sc EXCEPT !.pos = Find(value, "%", pos + 1 + 1),
                        !.steps = @ + 1]
        ELSE IF pmatch.ok
        THEN IF pmatch.group # <<>>
             THEN [sc EXCEPT
                     !.numeric_subs_list =
                         Append(@, ParseInt(SubSeq(pmatch.group, 1,
                                                   Len(pmatch.group) - 1))),
                     !.pos = Find(value, "%",
                                  pos + 1 + Len(pmatch.group) + 1),
                     !.steps = @ + 1]
             ELSE [sc EXCEPT !.regular_subs = @ + 1,
                             !.pos = Find(value, "%", pos + 1 + 1),
                             !.steps = @ + 1]
        ELSE [sc EXCEPT !.valid = FALSE, !.steps = @ + 1]

\* the loop condition of the scan
ScanGoesOn(value, sc) == sc.valid /\ sc.pos < Len(value) /\ sc.pos # -1

RECURSIVE ScanLoop(_, _)
ScanLoop(value, sc) ==
    IF ScanGoesOn(value, sc) THEN ScanLoop(value, ScanStep(value, sc))
    ELSE sc

\* the state of the scan before the first iteration
ScanStart(value) ==
    [pos |-> Find(value, "%", 0), numeric_subs_list |-> <<>>,
     regular_subs |-> 0, valid |-> TRUE, steps |-> 0]

ScanSubs(value) == ScanLoop(value, ScanStart(value))

\* variant: the largest index and the number of anonymous placeholders are
\* each held against the limit, their sum is not
TooManySubsEachAlone(sorted, regular_subs) ==
    \/ sorted # <<>> /\ sorted[Len(sorted)] > MOZILLA_MAX_PROPERTIES_STRING_SUBS
    \/ regular_subs > MOZILLA_MAX_PROPERTIES_STRING_SUBS

\* the condition under which the 'more than ten substitutions' error is
\* logged, on the sorted list
TooManySubs(sorted, regular_subs) ==
    \/ sorted # <<>> /\ sorted[Len(sorted)] > MOZILLA_MAX_PROPERTIES_STRING_SUBS
    \/ regular_subs > MOZILLA_MAX_PROPERTIES_STRING_SUBS
    \/ /\ sorted # <<>>
       /\ sorted[Len(sorted)] + regular_subs
              > MOZILLA_MAX_PROPERTIES_STRING_SUBS

\* variant: the list is left in the order the placeholders occur in
UnsortedSubs(numeric_subs_list) == numeric_subs_list

\* line 313: numeric_subs_list.sort()
SortedSubs(numeric_subs_list) == Sort(numeric_subs_list)

\* variant: the later value replaces the stored one
DuplicatePropertyStoring(ll, file_path, key, value) ==
    LangLogError([ll EXCEPT !.keys = Put(@, key, value)],
        ErrorMsg("duplicate_property_key", ll.name, file_path, key))

\* lines 262-265: the key is already stored
DuplicateProperty(ll, file_path, key, value) ==
    LangLogError(ll,
        ErrorMsg("duplicate_property_key", ll.name, file_path, key))

\* variant: a blank value is stored like any other
BlankValueStored(ll, file_path, key) ==
    [ll EXCEPT !.keys = Put(@, key, <<>>)]

\* lines 266-269: the value of the record is empty
BlankValue(ll, file_path, key) ==
    LangLogError(ll,
        ErrorMsg("blank_property_value", ll.name, file_path, key))

\* variant: a line that is no record is dropped without a word
MalformedLineSilent(ll, file_name, file_path, line) == ll

\* lines 328-331: the segment does not match PROP_LINE
MalformedLine(ll, file_name, file_path, line) ==
    LangLogError(ll,
        Msg("error", "malformed_property_line", ll.name, file_path,
            <<file_name, line>>, -1, NoSigs))

\* variant: a value with a malformed placeholder is stored all the same
ParsePropLineKeepingDropped(ll, file_name, file_path, line) ==
    IF Strip(line) = <<>> THEN ll
    ELSE LET match == PropLineMatch(line)
             key   == <<file_name, match.key>>
             value == match.value
         IN
         IF match.ok
         THEN IF key \in DOMAIN ll.keys
              THEN DuplicateProperty(ll, file_path, key, value)
              ELSE IF Len(value) < 1
              THEN BlankValue(ll, file_path, key)
              ELSE IF "%" \in Range(value)
              THEN LET sc     == ScanSubs(value)
                       sorted == SortedSubs(sc.numeric_subs_list)
                       stored == [ll EXCEPT !.keys = Put(@, key, value)]
                       warned ==
                           IF TooManySubs(sorted, sc.regular_subs)
                           THEN LangLogError(stored,
                                    ErrorMsg("too_many_substitutions",
                                             ll.name, file_path, key))
                           ELSE stored
                   IN  IF sc.valid
                       THEN [warned EXCEPT !.subs = Put(@, key, sorted)]
                       ELSE LangLogError(stored,
                                Msg("error", "improper_percent", ll.name,
                                    file_path, key, sc.pos, NoSigs))
              ELSE [ll EXCEPT !.keys = Put(@, key, value)]
         ELSE IF Len(line) > 0
              THEN MalformedLine(ll, file_name, file_path, line)
              ELSE ll

\* the body of 'for line in data' for one segment
ParsePropLine(ll, file_name, file_path, line) ==
    IF Strip(line) = <<>> THEN ll
    ELSE LET match == PropLineMatch(line)
             key   == <<file_name, match.key>>
             value == match.value
         IN
         IF match.ok
         THEN IF key \in DOMAIN ll.keys
              THEN DuplicateProperty(ll, file_path, key, value)
              ELSE IF Len(value) < 1
              THEN BlankValue(ll, file_path, key)
              ELSE IF "%" \in Range(value)
              THEN LET sc     == ScanSubs(value)
                       sorted == SortedSubs(sc.numeric_subs_list)
                       stored == [ll EXCEPT !.keys = Put(@, key, value)]
                       warned ==
                           IF TooManySubs(sorted, sc.regular_subs)
                           THEN LangLogError(stored,
                                    ErrorMsg("too_many_substitutions",
                                             ll.name, file_path, key))
                           ELSE stored
                   IN  IF sc.valid
                       THEN [warned EXCEPT !.subs = Put(@, key, sorted)]
                       ELSE LangLogError(ll,
                                Msg("error", "improper_percent", ll.name,
                                    file_path, key, sc.pos, NoSigs))
              ELSE [ll EXCEPT !.keys = Put(@, key, value)]
         ELSE IF Len(line) > 0
              THEN MalformedLine(ll, file_name, file_path, line)
              ELSE ll

RECURSIVE ParsePropLines(_, _, _, _)
ParsePropLines(ll, file_name, file_path, lines) ==
    IF lines = <<>> THEN ll
    ELSE ParsePropLines(ParsePropLine(ll, file_name, file_path, Head(lines)),
                        file_name, file_path, Tail(lines))

\* the segments _parse_properties_file loops over
PropRecords(data) == SplitLines(StripComments(data))

\* _parse_properties_file on a file whose content is data
ParsePropertiesFile(ll, file_name, file_path, data) ==
    IF Len(data) < 1
    THEN LangLogWarning(ll,
             WarningMsg("empty_property_file", ll.name, file_path, NoKey))
    ELSE ParsePropLines(ll, file_name, file_path, PropRecords(data))

(***************************************************************************)
(* The file system.  A disk is [dirs, text, dtd]: the set of directories,  *)
(* the content of every file, and for a file handed to lxml what           *)
(* etree.DTD makes of it.                                                  *)
(***************************************************************************)
\* os.path.dirname
Dirname(p) == IF p = <<>> THEN <<>> ELSE SubSeq(p, 1, Len(p) - 1)

\* os.path.basename
Basename(p) == p[Len(p)]

\* os.path.abspath / normpath: 'x/..' is dropped
RECURSIVE Normalize(_)
Normalize(p) ==
    IF p = <<>> THEN <<>>
    ELSE LET front == Normalize(SubSeq(p, 1, Len(p) - 1))
         IN  IF p[Len(p)] = ".." THEN Dirname(front)
             ELSE Append(front, p[Len(p)])

\* os.path.abspath(os.path.join(a, b)) for a relative b
JoinAbs(a, b) == Normalize(a \o b)

Files(d) == DOMAIN d.text

\* os.path.exists
Exists(d, p) == p \in d.dirs \/ p \in Files(d)

\* os.path.isdir
IsDir(d, p) == p \in d.dirs

IsBelow(p, top) ==
    Len(p) > Len(top) /\ SubSeq(p, 1, Len(top)) = top

\* the directories os.walk(top) reports in the 'dirs' lists of all the
\* levels it visits: every directory below top, at any depth
WalkDirs(d, top) ==
    IF IsDir(d, top) THEN {p \in d.dirs : IsBelow(p, top)} ELSE {}

\* the files os.walk(top) reports in the 'files' lists of all levels
WalkFiles(d, top) ==
    IF IsDir(d, top) THEN {p \in Files(d) : IsBelow(p, top)} ELSE {}

\* the names for which file_path.endswith('.dtd') holds
DtdFileNames == {"g.dtd"}

\* the names for which file_path.endswith('.properties') holds
PropertiesFileNames == {"f.properties", "h.properties"}

\* file.read(n).startswith(codecs.BOM_UTF8)
StartsWithBOM(text) == text # <<>> /\ text[1] = BOM

(***************************************************************************)
(* get_loc_keys.                                                           *)
(***************************************************************************)
\* variant: a blank entity value is an error and is not stored
AddEntityBlankIsError(ll, file_name, file_path, entity) ==
    LET key == <<file_name, entity.name>>
    IN  IF key \in DOMAIN ll.keys
        THEN LangLogError(ll,
                 ErrorMsg("duplicate_dtd_key", ll.name, file_path, key))
        ELSE IF "<" \in Range(entity.content)
        THEN LangLogError(ll,
                 ErrorMsg("dtd_invalid_character", ll.name, file_path, key))
        ELSE IF Len(entity.content) < 1
        THEN LangLogError(ll,
                 ErrorMsg("blank_dtd_value", ll.name, file_path, key))
        ELSE [ll EXCEPT !.keys = Put(@, key, entity.content)]

\* the try block of the '.dtd' branch for one entity
AddEntity(ll, file_name, file_path, entity) ==
    LET key == <<file_name, entity.name>>
    IN  IF key \in DOMAIN ll.keys
        THEN LangLogError(ll,
                 ErrorMsg("duplicate_dtd_key", ll.name, file_path, key))
        ELSE IF "<" \in Range(entity.content)
        THEN LangLogError(ll,
                 ErrorMsg("dtd_invalid_character", ll.name, file_path, key))
        ELSE LET noted ==
                     IF Len(entity.content) < 1
                     THEN LangLogWarning(ll,
                              WarningMsg("blank_dtd_value", ll.name,
                                         file_path, key))
                     ELSE ll
             IN  [noted EXCEPT !.keys = Put(@, key, entity.content)]

RECURSIVE AddEntities(_, _, _, _)
AddEntities(ll, file_name, file_path, entities) ==
    IF entities = <<>> THEN ll
    ELSE AddEntities(AddEntity(ll, file_name, file_path, Head(entities)),
                     file_name, file_path, Tail(entities))

\* variant: DTDParseError is not caught
ParseDtdFileRaising(ll, file_name, file_path, parsed) ==
    IF parsed.ok
    THEN AddEntities(ll, file_name, file_path, parsed.entities)
    ELSE [ll EXCEPT !.raised = TRUE]

\* the '.dtd' branch: etree.DTD either yields the entities or raises
\* DTDParseError, which is caught and logged as one error
ParseDtdFile(ll, file_name, file_path, parsed) ==
    IF parsed.ok
    THEN AddEntities(ll, file_name, file_path, parsed.entities)
    ELSE LangLogError(ll,
             Msg("error", "dtd_syntax_error", ll.name, file_path, NoKey,
                 parsed.column - 1, NoSigs))

\* variant: a file with a byte order marker is reported and then left out
CheckFileSkippingBOM(ll, d, found) ==
    LET file_name == Basename(found)
        file_path == Normalize(Append(ll.loc_dir, file_name))
    IN  IF ~Exists(d, file_path) THEN [ll EXCEPT !.raised = TRUE]
        ELSE IF IsDir(d, file_path) THEN [ll EXCEPT !.raised = TRUE]
        ELSE IF StartsWithBOM(d.text[file_path])
        THEN LangLogError(ll,
                 ErrorMsg("byte_order_marker", ll.name, file_path, NoKey))
        ELSE IF file_name \in DtdFileNames
        THEN ParseDtdFile(ll, file_name, file_path, d.dtd[file_path])
        ELSE IF file_name \in PropertiesFileNames
        THEN ParsePropertiesFile(ll, file_name, file_path,
                                 d.text[file_path])
        ELSE LangLogWarning(ll,
                 WarningMsg("not_a_localization_file", ll.name, file_path,
                            NoKey))

\* the body of 'for file_name in loc_files' for the file found at 'found'.
\* The name is joined to loc_dir, whatever the level it was found at;
\* os.path.getsize raises OSError when there is no such file.
CheckFile(ll, d, found) ==
    LET file_name == Basename(found)
        file_path == Normalize(Append(ll.loc_dir, file_name))
        bomChecked ==
            IF StartsWithBOM(d.text[file_path])
            THEN LangLogError(ll,
                     ErrorMsg("byte_order_marker", ll.name, file_path, NoKey))
            ELSE ll
    IN  IF ~Exists(d, file_path) THEN [ll EXCEPT !.raised = TRUE]
        ELSE IF IsDir(d, file_path) THEN [ll EXCEPT !.raised = TRUE]
        ELSE IF file_name \in DtdFileNames
        THEN ParseDtdFile(bomChecked, file_name, file_path,
                          d.dtd[file_path])
        ELSE IF file_name \in PropertiesFileNames
        THEN ParsePropertiesFile(bomChecked, file_name, file_path,
                                 d.text[file_path])
        ELSE LangLogWarning(bomChecked,
                 WarningMsg("not_a_localization_file", ll.name, file_path,
                            NoKey))

\* the loop over loc_files in the order given; an exception ends it
RECURSIVE CheckFiles(_, _, _)
CheckFiles(ll, d, order) ==
    IF order = <<>> \/ ll.raised THEN ll
    ELSE CheckFiles(CheckFile(ll, d, Head(order)), d, Tail(order))

\* the possible outcomes of get_loc_keys on a fresh LocalizationLanguage:
\* one for every order in which os.walk may list the files
GetLocKeys(d, loc_dir, language) ==
    {CheckFiles(NewLanguage(loc_dir, language), d, order) :
        order \in Orders(WalkFiles(d, loc_dir))}

(***************************************************************************)
(* ManifestSet.  A line of chrome.manifest is [words, uri]: the words in   *)
(* front of the uri field, and the uri field (a relative path) when the    *)
(* line has one.  install.rdf is what etree.parse makes of it:             *)
(* [ok, locales], the texts of its em:locale elements in document order.   *)
(***************************************************************************)
\* the part of localecodes.MOZILLA_LOCALE_CODES that the model's names meet
MOZILLA_LOCALE_CODES == {"en-US", "de", "fr", "es"}

\* ManifestSet.__init__; log holds what went to the logging callbacks and
\* runs counts the executions of validate_manifests
NewManifestSet(manifest_dir) ==
    [loc_base_dirs |-> {}, manifest_lines |-> <<>>, manifest_paths |-> <<>>,
     manifests_parsed |-> FALSE, rdf_locs |-> {},
     manifest_dir |-> manifest_dir, log |-> EmptyBag, runs |-> 0]

MsLogError(ms, m) == [ms EXCEPT !.log = AddMsg(ms.log, m)]

MsLogWarning(ms, m) == [ms EXCEPT !.log = AddMsg(ms.log, m)]

\* line.startswith(MANIFEST_LOCALE_START)
StartsWithLocale(line) ==
    line.words # <<>> /\ line.words[1] \in {"locale", "locales"}

\* MANIFEST_LOCALE_LINE.match(line)
LocaleLineMatches(line) ==
    Len(line.words) >= 3 /\ line.words[1] = "locale" /\ line.uri # <<>>

\* variant: a later 'locale' line replaces the path and the line number
ManifestLineLastWins(ms, line, i) ==
    IF ~StartsWithLocale(line) THEN ms
    ELSE IF ~LocaleLineMatches(line)
    THEN MsLogError(ms,
             Msg("error", "invalid_locale_line", MainLang, NoPath, NoKey,
                 i, NoSigs))
    ELSE LET locale        == line.words[3]
             locale_subdir == line.uri[1]
             base_dir      == JoinAbs(ms.manifest_dir,
                                      locale_subdir \o <<"..">>)
             locale_absdir == JoinAbs(ms.manifest_dir, locale_subdir)
             pathed ==
                 [ms EXCEPT
                    !.loc_base_dirs = @ \cup {base_dir},
                    !.manifest_paths = Put(@, locale, locale_absdir)]
         IN  IF locale \notin DOMAIN pathed.manifest_lines
             THEN [pathed EXCEPT !.manifest_lines = Put(@, locale, i)]
             ELSE MsLogError(
                      [pathed EXCEPT !.manifest_lines = Put(@, locale, i)],
                      Msg("error", "duplicate_manifest_locale", MainLang,
                          NoPath, <<locale>>, -1, NoSigs))

\* the body of 'for line in lines' for line number i
ManifestLine(ms, line, i) ==
    IF ~StartsWithLocale(line) THEN ms
    ELSE IF ~LocaleLineMatches(line)
    THEN MsLogError(ms,
             Msg("error", "invalid_locale_line", MainLang, NoPath, NoKey,
                 i, NoSigs))
    ELSE LET locale        == line.words[3]
             locale_subdir == line.uri[1]
             base_dir      == JoinAbs(ms.manifest_dir,
                                      locale_subdir \o <<"..">>)
             locale_absdir == JoinAbs(ms.manifest_dir, locale_subdir)
             based == [ms EXCEPT !.loc_base_dirs = @ \cup {base_dir}]
             pathed ==
                 IF locale \notin DOMAIN based.manifest_paths
                 THEN [based EXCEPT
                         !.manifest_paths = Put(@, locale, locale_absdir)]
                 ELSE based
         IN  IF locale \notin DOMAIN pathed.manifest_lines
             THEN [pathed EXCEPT !.manifest_lines = Put(@, locale, i)]
             ELSE MsLogError(pathed,
                      Msg("error", "duplicate_manifest_locale", MainLang,
                          NoPath, <<locale>>, -1, NoSigs))

RECURSIVE ManifestLines(_, _, _)
ManifestLines(ms, lines, i) ==
    IF i > Len(lines) THEN ms
    ELSE ManifestLines(ManifestLine(ms, lines[i], i), lines, i + 1)

\* the body of 'for locale in root.findall(...)'
RdfLocale(ms, loc) ==
    IF loc \notin ms.rdf_locs THEN [ms EXCEPT !.rdf_locs = @ \cup {loc}]
    ELSE MsLogError(ms,
             Msg("error", "duplicate_rdf_locale", MainLang, NoPath,
                 <<loc>>, -1, NoSigs))

RECURSIVE RdfLocales(_, _)
RdfLocales(ms, locs) ==
    IF locs = <<>> THEN ms
    ELSE RdfLocales(RdfLocale(ms, Head(locs)), Tail(locs))

\* the try block around etree.parse(install_rdf)
ParseRdf(ms, rdf, path) ==
    IF rdf.ok THEN RdfLocales(ms, rdf.locales)
    ELSE MsLogError(ms, ErrorMsg("rdf_syntax_error", MainLang, path, NoKey))

\* what the loop 'for locale in self.manifest_paths' logs
ManifestEntryMsgs(ms, d) ==
    {Msg("error", "manifest_folder_missing", l, ms.manifest_paths[l],
         <<l>>, ms.manifest_lines[l], NoSigs) :
        l \in {x \in DOMAIN ms.manifest_paths :
                  ~Exists(d, ms.manifest_paths[x])}}
    \cup
    {Msg("error", "manifest_folder_not_a_folder", l, ms.manifest_paths[l],
         <<l>>, ms.manifest_lines[l], NoSigs) :
        l \in {x \in DOMAIN ms.manifest_paths :
                  /\ Exists(d, ms.manifest_paths[x])
                  /\ ~IsDir(d, ms.manifest_paths[x])}}
    \cup
    {WarningMsg("manifest_locale_code_unknown", l, NoPath, <<l>>) :
        l \in DOMAIN ms.manifest_paths \ MOZILLA_LOCALE_CODES}

\* what the loop 'for locale in self.rdf_locs' logs
RdfEntryMsgs(ms, d) ==
    {WarningMsg("rdf_locale_not_in_manifest", l, NoPath, <<l>>) :
        l \in ms.rdf_locs \ DOMAIN ms.manifest_paths}
    \cup
    {Msg("warning", "rdf_folder_missing", l, ms.manifest_paths[l], <<l>>,
         ms.manifest_lines[l], NoSigs) :
        l \in {x \in ms.rdf_locs \cap DOMAIN ms.manifest_paths :
                  ~Exists(d, ms.manifest_paths[x])}}
    \cup
    {Msg("warning", "rdf_folder_not_a_folder", l, ms.manifest_paths[l],
         <<l>>, ms.manifest_lines[l], NoSigs) :
        l \in {x \in ms.rdf_locs \cap DOMAIN ms.manifest_paths :
                  /\ Exists(d, ms.manifest_paths[x])
                  /\ ~IsDir(d, ms.manifest_paths[x])}}
    \cup
    {WarningMsg("rdf_locale_code_unknown", l, NoPath, <<l>>) :
        l \in ms.rdf_locs \ MOZILLA_LOCALE_CODES}

\* the keys of the langs dictionary both ManifestSet and CheckLoc build from
\* os.walk over the base directories
WalkedNames(d, base_dirs) ==
    {Basename(p) : p \in UNION {WalkDirs(d, ld) : ld \in base_dirs}}

\* variant: a folder that install.rdf does not name is an error as well
FolderMsgsRdfIsError(ms, d) ==
    {ErrorMsg("folder_not_in_manifest", l, NoPath, <<l>>) :
        l \in WalkedNames(d, ms.loc_base_dirs) \ DOMAIN ms.manifest_paths}
    \cup
    {ErrorMsg("folder_not_in_rdf", l, NoPath, <<l>>) :
        l \in WalkedNames(d, ms.loc_base_dirs) \ ms.rdf_locs}

\* what the loop 'for lang in langs' logs
FolderMsgs(ms, d) ==
    {ErrorMsg("folder_not_in_manifest", l, NoPath, <<l>>) :
        l \in WalkedNames(d, ms.loc_base_dirs) \ DOMAIN ms.manifest_paths}
    \cup
    {WarningMsg("folder_not_in_rdf", l, NoPath, <<l>>) :
        l \in WalkedNames(d, ms.loc_base_dirs) \ ms.rdf_locs}

\* validate_manifests
ValidateManifests(ms0, d) ==
    LET ms == [ms0 EXCEPT !.loc_base_dirs = {}, !.manifest_paths = <<>>,
                          !.manifest_lines = <<>>, !.rdf_locs = {},
                          !.runs = @ + 1]
        manifest    == Append(ms.manifest_dir, "chrome.manifest")
        install_rdf == Normalize(Append(ms.manifest_dir, "install.rdf"))
        lined  == ManifestLines(ms, d.manifest[manifest], 1)
        rdfed  == ParseRdf(lined, d.rdf[install_rdf], install_rdf)
        checked ==
            [rdfed EXCEPT
               !.log = @ (+) SetToBag(ManifestEntryMsgs(rdfed, d))
                         (+) SetToBag(RdfEntryMsgs(rdfed, d))
                         (+) SetToBag(FolderMsgs(rdfed, d))]
    IN  IF ~(Exists(d, ms.manifest_dir) /\ IsDir(d, ms.manifest_dir))
        THEN MsLogError(ms,
                 ErrorMsg("main_directory_missing", MainLang,
                          ms.manifest_dir, NoKey))
        ELSE IF ~Exists(d, manifest)
        THEN MsLogError(ms,
                 ErrorMsg("chrome_manifest_missing", MainLang,
                          ms.manifest_dir, NoKey))
        ELSE IF ~Exists(d, install_rdf)
        THEN MsLogError(lined,
                 ErrorMsg("install_rdf_missing", MainLang,
                          ms.manifest_dir, NoKey))
        ELSE [checked EXCEPT !.manifests_parsed = TRUE]

\* get_loc_base_dirs: the state it leaves the ManifestSet in; the value it
\* returns is the loc_base_dirs field of that state
GetLocBaseDirs(ms, d) ==
    IF ~ms.manifests_parsed THEN ValidateManifests(ms, d) ELSE ms

(***************************************************************************)
(* CheckLoc.                                                               *)
(***************************************************************************)
VARIABLES
    disk,          \* the file system the run reads
    arg_dir,       \* CheckLoc.manifest_dir, as given to the constructor
    locales_only,  \* CheckLoc.locales_only
    pc,            \* the position of the run inside validate_loc_files
    any_errors,    \* CheckLoc.any_errors
    msgs,          \* the errors and warnings that went through _log_message
    result,        \* the value validate_loc_files returned
    manifest_dir,  \* the local manifest_dir of validate_loc_files
    ms,            \* the ManifestSet of the run
    loc_dirs,      \* the local loc_dirs
    langs,         \* the local langs: name -> path
    baseline,      \* the baseline LocalizationLanguage
    locs,          \* the LocalizationLanguage objects of the loop iterations
    pending,       \* the names 'for lang in langs' has not visited yet
    built,         \* the names get_loc_keys has been called for
    compared,      \* the names whose keys were compared to the baseline
    prop_pc,       \* the position inside _parse_properties_file
    prop_ll,       \* the LocalizationLanguage _parse_properties_file fills
    prop_data,     \* the text _parse_properties_file read from the file
    prop_seen,     \* the number of segments 'for line in data' has done
    file_pc,       \* the position inside get_loc_keys
    file_ll,       \* the LocalizationLanguage get_loc_keys is called on
    file_order,    \* loc_files: the files in the order os.walk listed them
    file_seen,     \* the number of files 'for file_name in loc_files' did
    scan_pc,       \* the position inside the placeholder scan of a value
    scan_value,    \* the value the scan reads
    scan_sc        \* pos, the two collections and valid, as the scan has them

vars ==
    <<disk, arg_dir, locales_only, pc, any_errors, msgs, result,
      manifest_dir, ms, loc_dirs, langs, baseline, locs, pending, built,
      compared, prop_pc, prop_ll, prop_data, prop_seen, file_pc, file_ll,
      file_order, file_seen, scan_pc, scan_value, scan_sc>>

scans == <<scan_pc, scan_value, scan_sc>>

files == <<file_pc, file_ll, file_order, file_seen>>

props == <<prop_pc, prop_ll, prop_data, prop_seen>>

env == <<disk, arg_dir, locales_only>>

\* variant: a warning sets the error flag as well
HasErrorOrWarning(bag) == DOMAIN bag # {}

\* lines 685-686: _log_message sets any_errors for an error, not a warning
HasError(bag) == \E m \in DOMAIN bag : IsError(m)

\* _log_error of CheckLoc, with lang left out, as used for the fatal
\* conditions of validate_loc_files
FatalMsg(kind, path) == ErrorMsg(kind, MainLang, path, NoKey)

\* 'return True' right after one _log_error
ReturnFatal(m) ==
    /\ msgs' = AddMsg(msgs, m)
    /\ any_errors' = TRUE
    /\ result' = TRUE
    /\ pc' = "done"

\* variant: the path is used as it was given
RootDirAsGiven(d, abs) == abs

\* lines 729-732: a path that names a file stands for the file's directory
RootDir(d, abs) == IF ~IsDir(d, abs) THEN Dirname(abs) ELSE abs

\* lines 717-734: the root path
Start ==
    /\ pc = "start"
    /\ LET abs == Normalize(arg_dir)
       IN  IF ~Exists(disk, abs)
           THEN /\ ReturnFatal(FatalMsg("root_missing", abs))
                /\ UNCHANGED <<manifest_dir, ms>>
           ELSE /\ manifest_dir' = RootDir(disk, abs)
                /\ ms' = NewManifestSet(manifest_dir')
                /\ any_errors' = FALSE
                /\ pc' = "dirs"
                /\ UNCHANGED <<msgs, result>>
    /\ UNCHANGED <<env, props, files, scans,
                   loc_dirs, langs, baseline, locs, pending, built, compared>>

\* variant: the manifests are validated in locales-only mode as well
LocalesOnlyDirsValidating ==
    /\ pc = "dirs"
    /\ locales_only
    /\ ms' = ValidateManifests(ms, disk)
    /\ msgs' = msgs (+) ms'.log
    /\ any_errors' = (any_errors \/ HasError(ms'.log))
    /\ loc_dirs' = {manifest_dir}
    /\ pc' = "discover"
    /\ UNCHANGED <<env, props, files, scans,
                   result, manifest_dir, langs, baseline, locs,
                   pending, built, compared>>

\* lines 736-745 with locales_only set
LocalesOnlyDirs ==
    /\ pc = "dirs"
    /\ locales_only
    /\ loc_dirs' = {manifest_dir}
    /\ pc' = "discover"
    /\ UNCHANGED <<env, props, files, scans,
                   any_errors, msgs, result, manifest_dir, ms,
                   langs, baseline, locs, pending, built, compared>>

\* lines 736-745 with locales_only not set
ManifestDirs ==
    /\ pc = "dirs"
    /\ ~locales_only
    /\ LET validated == ValidateManifests(ms, disk)
           asked     == GetLocBaseDirs(validated, disk)
           dirs      == asked.loc_base_dirs
       IN  /\ ms' = asked
           /\ loc_dirs' = dirs
           /\ IF dirs = {}
              THEN /\ msgs' = AddMsg(msgs (+) asked.log,
                                     FatalMsg("no_localization_directories",
                                              manifest_dir))
                   /\ any_errors' = TRUE
                   /\ result' = TRUE
                   /\ pc' = "done"
              ELSE /\ msgs' = msgs (+) asked.log
                   /\ any_errors' = (any_errors \/ HasError(asked.log))
                   /\ pc' = "discover"
                   /\ UNCHANGED result
    /\ UNCHANGED <<env, props, files, scans,
                   manifest_dir, langs, baseline, locs, pending,
                   built, compared>>

\* the langs dictionary after the loops of lines 747-750 over loc_dirs in
\* the given order; a later directory overwrites the entry of an earlier
RECURSIVE WalkLangs(_, _, _)
WalkLangs(d, order, found) ==
    IF order = <<>> THEN found
    ELSE LET ld    == Head(order)
             names == {Basename(p) : p \in WalkDirs(d, ld)}
         IN  WalkLangs(d, Tail(order),
                 [n \in DOMAIN found \cup names |->
                     IF n \in names THEN Append(ld, n) ELSE found[n]])

\* lines 747-760
Discover ==
    /\ pc = "discover"
    /\ \E order \in Orders(loc_dirs) :
         LET found == WalkLangs(disk, order, <<>>)
         IN  /\ langs' = found
             /\ IF DOMAIN found = {}
                THEN ReturnFatal(FatalMsg("no_language_folders",
                                          manifest_dir))
                ELSE IF BASE_LOC \notin DOMAIN found
                THEN ReturnFatal(FatalMsg("base_language_missing",
                                          manifest_dir))
                ELSE /\ pc' = "baseline"
                     /\ UNCHANGED <<any_errors, msgs, result>>
    /\ UNCHANGED <<env, props, files, scans,
                   manifest_dir, ms, loc_dirs, baseline, locs,
                   pending, built, compared>>

\* variant: a baseline without keys is accepted
BaselineNeverEmpty(b) == FALSE

\* line 768: len(baseline.keys) < 1
BaselineHasNoKeys(b) == DOMAIN b.keys = {}

\* variant: the parse errors of the baseline are not looked at
BaselineFailedBefore(b, errors_before) == errors_before

\* lines 766 and 772: any_errors as tested after the baseline was read,
\* given its value before
BaselineFailed(b, errors_before) ==
    errors_before \/ HasError(b.log) \/ b.parsing_errors

\* lines 763-779
BuildBaseline ==
    /\ pc = "baseline"
    /\ \E b \in GetLocKeys(disk, langs[BASE_LOC], BASE_LOC) :
         /\ baseline' = b
         /\ built' = built \cup {BASE_LOC}
         /\ IF b.raised
            THEN /\ msgs' = msgs (+) b.log
                 /\ any_errors' = (any_errors \/ HasError(b.log))
                 /\ pc' = "raised"
                 /\ UNCHANGED <<result, langs, pending>>
            ELSE IF BaselineHasNoKeys(b)
            THEN /\ msgs' = AddMsg(msgs (+) b.log,
                                   ErrorMsg("no_keys_in_baseline", MainLang,
                                            b.loc_dir, NoKey))
                 /\ any_errors' = TRUE
                 /\ result' = TRUE
                 /\ pc' = "done"
                 /\ UNCHANGED <<langs, pending>>
            ELSE /\ msgs' = msgs (+) b.log
                 /\ any_errors' = BaselineFailed(b, any_errors)
                 /\ IF any_errors'
                    THEN /\ result' = TRUE
                         /\ pc' = "done"
                         /\ UNCHANGED <<langs, pending>>
                    ELSE /\ langs' = [n \in DOMAIN langs \ {BASE_LOC} |->
                                         langs[n]]
                         /\ pending' = DOMAIN langs \ {BASE_LOC}
                         /\ pc' = "locales"
                         /\ UNCHANGED result
    /\ UNCHANGED <<env, props, files, scans,
                   manifest_dir, ms, loc_dirs, locs, compared>>

\* variant: only the keys of the locale are looked up in the baseline
KeyMsgsOneWay(l, b) ==
    {ErrorMsg("key_not_in_baseline", l.name, NoPath, k) :
        k \in DOMAIN l.keys \ DOMAIN b.keys}

\* lines 787-797: the two key loops
KeyMsgs(l, b) ==
    {ErrorMsg("key_not_in_baseline", l.name, NoPath, k) :
        k \in DOMAIN l.keys \ DOMAIN b.keys}
    \cup
    {ErrorMsg("key_not_in_locale", l.name, NoPath, k) :
        k \in DOMAIN b.keys \ DOMAIN l.keys}

\* lines 801-812: the loop over loc.subs
LocSubsMsgs(l, b) ==
    {ErrorMsg("subs_not_in_baseline", l.name, NoPath, k) :
        k \in DOMAIN l.subs \ DOMAIN b.subs}
    \cup
    {Msg("error", "subs_differ_from_baseline", l.name, NoPath, k, -1,
         <<l.subs[k], b.subs[k]>>) :
        k \in {x \in DOMAIN l.subs \cap DOMAIN b.subs :
                  l.subs[x] # b.subs[x]}}

\* lines 814-825: the loop over baseline.subs
BaselineSubsMsgs(l, b) ==
    {ErrorMsg("subs_not_in_locale", l.name, NoPath, k) :
        k \in DOMAIN b.subs \ DOMAIN l.subs}
    \cup
    {Msg("error", "baseline_subs_differ", l.name, NoPath, k, -1,
         <<l.subs[k], b.subs[k]>>) :
        k \in {x \in DOMAIN b.subs \cap DOMAIN l.subs :
                  l.subs[x] # b.subs[x]}}

\* what the comparisons of one loop iteration log
DiffMsgs(l, b) ==
    SetToBag(KeyMsgs(l, b)) (+) SetToBag(LocSubsMsgs(l, b))
        (+) SetToBag(BaselineSubsMsgs(l, b))

\* a variant whose languages write into the dictionary of the baseline
CheckLocaleSharedMaps ==
    /\ pc = "locales"
    /\ \E lang \in pending :
         \E l \in GetLocKeys(disk, langs[lang], lang) :
            /\ locs' = Put(locs, lang, l)
            /\ built' = built \cup {lang}
            /\ IF l.raised
               THEN /\ msgs' = msgs (+) l.log
                    /\ any_errors' = (any_errors \/ HasError(l.log))
                    /\ pc' = "raised"
                    /\ UNCHANGED <<pending, compared>>
               ELSE /\ msgs' = msgs (+) l.log (+) DiffMsgs(l, baseline)
                    /\ any_errors' =
                           (any_errors \/ HasError(l.log) \/ l.parsing_errors
                               \/ HasError(DiffMsgs(l, baseline)))
                    /\ pending' = pending \ {lang}
                    /\ compared' = compared \cup {lang}
                    /\ pc' = "locales"
    /\ UNCHANGED <<env, props, files, scans,
                   result, manifest_dir, ms, loc_dirs, langs>>
    /\ baseline' =
          [baseline EXCEPT
              !.keys = [k \in DOMAIN baseline.keys \cup DOMAIN locs'[
                                 CHOOSE n \in built' \ built : TRUE].keys |->
                          IF k \in DOMAIN baseline.keys
                          THEN baseline.keys[k] ELSE <<>>]]

\* lines 781-825: one iteration of 'for lang in langs'
CheckLocale ==
    /\ pc = "locales"
    /\ \E lang \in pending :
         \E l \in GetLocKeys(disk, langs[lang], lang) :
            /\ locs' = Put(locs, lang, l)
            /\ built' = built \cup {lang}
            /\ IF l.raised
               THEN /\ msgs' = msgs (+) l.log
                    /\ any_errors' = (any_errors \/ HasError(l.log))
                    /\ pc' = "raised"
                    /\ UNCHANGED <<pending, compared>>
               ELSE /\ msgs' = msgs (+) l.log (+) DiffMsgs(l, baseline)
                    /\ any_errors' =
                           (any_errors \/ HasError(l.log) \/ l.parsing_errors
                               \/ HasError(DiffMsgs(l, baseline)))
                    /\ pending' = pending \ {lang}
                    /\ compared' = compared \cup {lang}
                    /\ pc' = "locales"
    /\ UNCHANGED <<env, props, files, scans,
                   result, manifest_dir, ms, loc_dirs, langs,
                   baseline>>

\* lines 827-828
Finish ==
    /\ pc = "locales"
    /\ pending = {}
    /\ result' = any_errors
    /\ pc' = "done"
    /\ UNCHANGED <<env, props, files, scans,
                   any_errors, msgs, manifest_dir, ms, loc_dirs,
                   langs, baseline, locs, pending, built, compared>>

(***************************************************************************)
(* The trees a run is started on.  The extension lives in /ext, with       *)
(* chrome.manifest and install.rdf in it and the locale folders in         *)
(* /ext/locale; a folder is [dirs, text, dtd] with paths relative to it.   *)
(***************************************************************************)
ExtDir == <<"ext">>
LocaleBase == <<"ext", "locale">>

\* the locale names a tree can hold: the baseline and the targets
AllNames == <<"en-US", "de", "fr", "es", "it">>
TargetNames == {AllNames[i + 1] : i \in 1..MaxTargets}
LocaleNames == {BASE_LOC} \cup TargetNames

\* what lxml makes of an entity file
DtdOk(entities) == [ok |-> TRUE, entities |-> entities, column |-> 0]
DtdError(column) == [ok |-> FALSE, entities |-> <<>>, column |-> column]

\* g.dtd holding an entity with blank content and one with content
BlankEntityDtd ==
    DtdOk(<<[name |-> <<"e">>, content |-> <<>>],
            [name |-> <<"n">>, content |-> <<"v">>]>>)

EmptyFolder == [dirs |-> {}, text |-> <<>>, dtd |-> <<>>]

\* a=%1$S, c=%1$S %2$S, d=x, an entity file and a file that is no
\* localization file
FolderOne ==
    [dirs |-> {},
     text |-> (<<"f.properties">> :>
                  <<"a", "=", "%", "1", "$", "S", "\n",
                    "c", "=", "%", "1", "$", "S", " ", "%", "2", "$", "S",
                    "\n", "d", "=", "x", "\n">>)
              @@ (<<"g.dtd">> :> <<"<">>) @@ (<<"x.txt">> :> <<"x">>),
     dtd  |-> (<<"g.dtd">> :> BlankEntityDtd)]

\* c with the placeholders of FolderOne in the other order, d=%%,
\* a=%2$S %1$S, one more placeholder than in FolderOne, a key b with an
\* anonymous placeholder, and no entity file
FolderTwo ==
    [dirs |-> {},
     text |-> (<<"f.properties">> :>
                  <<"c", "=", "%", "2", "$", "S", " ", "%", "1", "$", "S",
                    "\n", "d", "=", "%", "%", "\n",
                    "a", "=", "%", "2", "$", "S", " ", "%", "1", "$", "S",
                    "\n", "b", " ", ":", " ", "%", "S">>),
     dtd  |-> <<>>]

\* the key a twice
FolderDuplicate ==
    [dirs |-> {},
     text |-> (<<"f.properties">> :>
                  <<"a", "=", "x", "\n", "a", "=", "y", "\n">>),
     dtd  |-> <<>>]

\* FolderOne with a sub-folder that holds a property file of its own
FolderNested ==
    [dirs |-> {<<"sub">>},
     text |-> (<<"f.properties">> :> <<"a", "=", "%", "1", "$", "S", "\n">>)
              @@ (<<"g.dtd">> :> <<"<">>)
              @@ (<<"sub", "h.properties">> :> <<"c", "=", "z">>),
     dtd  |-> (<<"g.dtd">> :> BlankEntityDtd)]

Folders ==
    {EmptyFolder, FolderOne, FolderTwo, FolderDuplicate, FolderNested}

\* a tree holding the folder at the path 'at'
Mounted(folder, at) ==
    [dirs |-> {at} \cup {at \o p : p \in folder.dirs},
     text |-> [q \in {at \o p : p \in DOMAIN folder.text} |->
                  folder.text[Drop(q, Len(at))]],
     dtd  |-> [q \in {at \o p : p \in DOMAIN folder.dtd} |->
                  folder.dtd[Drop(q, Len(at))]]]

\* the locale folders of a tree: for some of the names a folder each
LocaleTrees == UNION {[names -> Folders] : names \in SUBSET LocaleNames}

\* a 'locale' line of chrome.manifest registering /ext/locale/<name>
LocaleLine(name) ==
    [words |-> <<"locale", "pkg", name>>, uri |-> <<<<"locale", name>>>>]

\* the names of a set in the order of AllNames
RECURSIVE InOrder(_, _)
InOrder(names, from) ==
    IF from > Len(AllNames) THEN <<>>
    ELSE (IF AllNames[from] \in names THEN <<AllNames[from]>> ELSE <<>>)
             \o InOrder(names, from + 1)

RECURSIVE LocaleLinesOf(_)
LocaleLinesOf(nameSeq) ==
    IF nameSeq = <<>> THEN <<>>
    ELSE <<LocaleLine(Head(nameSeq))>> \o LocaleLinesOf(Tail(nameSeq))

\* the registries written for a tree with the given locale folders:
\* [manifest, rdf], each a sequence holding the file content or nothing
Registries(names) ==
    LET all   == InOrder(names, 1)
        lines == <<[words |-> <<"content", "pkg">>,
                    uri |-> <<<<"content">>>>]>> \o LocaleLinesOf(all)
        rdf   == [ok |-> TRUE, locales |-> all]
    IN  { \* every folder registered in both files
          [manifest |-> <<lines>>, rdf |-> <<rdf>>],
          \* the baseline registered twice in both files, the second
          \* 'locale' line pointing to /ext/other/en-US
          [manifest |-> <<Append(lines,
                                 [words |-> <<"locale", "pkg", BASE_LOC>>,
                                  uri |-> <<<<"other", BASE_LOC>>>>])>>,
           rdf |-> <<[ok |-> TRUE, locales |-> Append(all, BASE_LOC)]>>],
          \* a 'locale' line without uri
          [manifest |-> <<Append(lines,
                                 [words |-> <<"locale", "pkg", "de">>,
                                  uri |-> <<>>])>>,
           rdf |-> <<rdf>>],
          \* only the baseline registered
          [manifest |-> <<<<LocaleLine(BASE_LOC)>>>>,
           rdf |-> <<[ok |-> TRUE, locales |-> <<BASE_LOC>>]>>],
          \* install.rdf names no locale
          [manifest |-> <<lines>>,
           rdf |-> <<[ok |-> TRUE, locales |-> <<>>]>>],
          \* no install.rdf
          [manifest |-> <<lines>>, rdf |-> <<>>],
          \* no chrome.manifest
          [manifest |-> <<>>, rdf |-> <<rdf>>] }

\* the union of two trees on different paths
Merged(a, b) ==
    [dirs |-> a.dirs \cup b.dirs, text |-> a.text @@ b.text,
     dtd |-> a.dtd @@ b.dtd]

RECURSIVE MountAll(_, _)
MountAll(tree, names) ==
    IF names = {} THEN EmptyFolder
    ELSE LET n == CHOOSE x \in names : TRUE
         IN  Merged(Mounted(tree[n], Append(LocaleBase, n)),
                    MountAll(tree, names \ {n}))

\* the disk for the locale folders 'tree' and the registries reg
DiskOf(tree, reg) ==
    LET locales == MountAll(tree, DOMAIN tree)
        manifest == Append(ExtDir, "chrome.manifest")
        rdf      == Append(ExtDir, "install.rdf")
        readme   == Append(LocaleBase, "readme.txt")
    IN  [dirs |-> {ExtDir, LocaleBase} \cup locales.dirs,
         text |-> locales.text
                  @@ (readme :> <<"x">>)
                  @@ (IF reg.manifest # <<>> THEN (manifest :> <<"l">>)
                      ELSE <<>>)
                  @@ (IF reg.rdf # <<>> THEN (rdf :> <<"<">>) ELSE <<>>),
         dtd |-> locales.dtd,
         manifest |-> IF reg.manifest # <<>>
                      THEN (manifest :> reg.manifest[1]) ELSE <<>>,
         rdf |-> IF reg.rdf # <<>> THEN (rdf :> reg.rdf[1]) ELSE <<>>]

\* the trees with chrome.manifest, install.rdf or both
Disks ==
    UNION {{DiskOf(tree, reg) : reg \in Registries(DOMAIN tree)} :
              tree \in LocaleTrees}

\* the trees of locale folders alone, as locales-only mode is meant for
LocaleDisks ==
    {DiskOf(tree, [manifest |-> <<>>, rdf |-> <<>>]) : tree \in LocaleTrees}

\* the paths a run is pointed to
RootArgs ==
    {ExtDir, Append(ExtDir, "chrome.manifest"), LocaleBase,
     Append(LocaleBase, "readme.txt"), <<"nowhere">>}

Init ==
    /\ locales_only \in BOOLEAN
    /\ disk \in IF locales_only THEN LocaleDisks ELSE Disks
    /\ arg_dir \in RootArgs
    /\ pc = "start"
    /\ any_errors = FALSE
    /\ msgs = EmptyBag
    /\ result = FALSE
    /\ manifest_dir = <<>>
    /\ ms = NewManifestSet(<<>>)
    /\ loc_dirs = {}
    /\ langs = <<>>
    /\ baseline = NewLanguage(<<>>, BASE_LOC)
    /\ locs = <<>>
    /\ pending = {}
    /\ built = {}
    /\ compared = {}
    /\ prop_pc = "off"
    /\ prop_ll = NewLanguage(<<>>, BASE_LOC)
    /\ prop_data = <<>>
    /\ prop_seen = 0
    /\ file_pc = "off"
    /\ file_ll = NewLanguage(<<>>, BASE_LOC)
    /\ file_order = <<>>
    /\ file_seen = 0
    /\ scan_pc = "off"
    /\ scan_value = <<>>
    /\ scan_sc = ScanStart(<<>>)

Next ==
    \/ Start
    \/ LocalesOnlyDirs
    \/ ManifestDirs
    \/ Discover
    \/ BuildBaseline
    \/ CheckLocale
    \/ Finish

Spec == Init /\ [][Next]_vars

(***************************************************************************)
(* _parse_properties_file, one segment of the file at a time.              *)
(***************************************************************************)
PropDir == <<"ext", "locale", "de">>
PropFileName == "f.properties"
PropFilePath == Append(PropDir, PropFileName)

\* the text of a value made of n anonymous placeholders
RECURSIVE AnonSubs(_)
AnonSubs(n) == IF n = 0 THEN <<>> ELSE <<"%", "S">> \o AnonSubs(n - 1)

\* the values of the records of the generated property files
PropValues ==
    {<<"x">>, <<>>, <<"%", "S">>, <<"%", "1", "$", "S">>,
     <<"%", "2", "$", "S", "%", "1", "$", "S">>,
     <<"%", "1", "$", "S", "%", "2", "$", "S">>,
     <<"%", "x">>, <<"x", "%">>, <<"%", "%">>, <<"%", "%", "%">>,
     <<"%", "S", "%", "x">>, <<"%", "1", "$">>, <<"%", "0", "$", "S">>,
     <<"%", "1", "0", "$", "S">>, <<"%", "1", "1", "$", "S">>,
     <<"%", "9", "$", "S", "%", "S", "%", "S">>,
     AnonSubs(MOZILLA_MAX_PROPERTIES_STRING_SUBS),
     AnonSubs(MOZILLA_MAX_PROPERTIES_STRING_SUBS + 1)}

\* the lines the generated property files are made of: the records of the
\* key a, two records of a key b, comment lines and a record ended by each
\* kind of terminator or by none, a blank line, a line that is no record
PropLineMenu ==
    {<<"a", "=">> \o v \o <<"\n">> : v \in PropValues}
    \cup {<<"b", " ", ":", " ", "x", "\n">>, <<"b", "=", "%", "S", "\n">>}
    \cup {<<"#", "c", "\n">>, <<"#", "c">>, <<"!", "c", "\r">>,
          <<" ", "#", "c", "=", "x", "\f">>, <<"a", "=", "x", "\r">>,
          <<" ", "\n">>, <<"o", "o", "p", "s", "\n">>}

RECURSIVE PropTextsOf(_)
PropTextsOf(n) ==
    IF n = 0 THEN {<<>>}
    ELSE PropTextsOf(n - 1)
         \cup {t \o l : t \in PropTextsOf(n - 1), l \in PropLineMenu}

PropTexts == PropTextsOf(MaxRecords)

\* the segments the loop of the running call goes through
PropSegments == PropRecords(prop_data)

engine ==
    <<disk, arg_dir, locales_only, pc, any_errors, msgs, result,
      manifest_dir, ms, loc_dirs, langs, baseline, locs, pending, built,
      compared>>

InitProps ==
    /\ disk = DiskOf(<<>>, [manifest |-> <<>>, rdf |-> <<>>])
    /\ arg_dir = ExtDir
    /\ locales_only = TRUE
    /\ pc = "off"
    /\ any_errors = FALSE
    /\ msgs = EmptyBag
    /\ result = FALSE
    /\ manifest_dir = <<>>
    /\ ms = NewManifestSet(<<>>)
    /\ loc_dirs = {}
    /\ langs = <<>>
    /\ baseline = NewLanguage(<<>>, BASE_LOC)
    /\ locs = <<>>
    /\ pending = {}
    /\ built = {}
    /\ compared = {}
    /\ prop_pc = "read"
    /\ prop_ll = NewLanguage(PropDir, "de")
    /\ prop_data \in PropTexts
    /\ prop_seen = 0
    /\ file_pc = "off"
    /\ file_ll = NewLanguage(<<>>, BASE_LOC)
    /\ file_order = <<>>
    /\ file_seen = 0
    /\ scan_pc = "off"
    /\ scan_value = <<>>
    /\ scan_sc = ScanStart(<<>>)

\* lines 243-251: the file is read, an empty file ends the call
PropRead ==
    /\ prop_pc = "read"
    /\ IF Len(prop_data) < 1
       THEN /\ prop_ll' = LangLogWarning(prop_ll,
                              WarningMsg("empty_property_file", prop_ll.name,
                                         PropFilePath, NoKey))
            /\ prop_pc' = "returned"
       ELSE /\ prop_pc' = "records"
            /\ UNCHANGED prop_ll
    /\ UNCHANGED <<engine, files, scans, prop_data, prop_seen>>

\* lines 252-331: one iteration of 'for line in data'
PropRecord ==
    /\ prop_pc = "records"
    /\ prop_seen < Len(PropSegments)
    /\ prop_ll' = ParsePropLine(prop_ll, PropFileName, PropFilePath,
                                PropSegments[prop_seen + 1])
    /\ prop_seen' = prop_seen + 1
    /\ UNCHANGED <<engine, files, scans, prop_pc, prop_data>>

\* line 333
PropReturn ==
    /\ prop_pc = "records"
    /\ prop_seen = Len(PropSegments)
    /\ prop_pc' = "returned"
    /\ UNCHANGED <<engine, files, scans, prop_ll, prop_data, prop_seen>>

NextProps ==
    \/ PropRead
    \/ PropRecord
    \/ PropReturn

SpecProps == InitProps /\ [][NextProps]_vars

(***************************************************************************)
(* get_loc_keys, one file of the locale folder at a time.                  *)
(***************************************************************************)
\* the files a generated locale folder can hold: [path, text, dtd], dtd
\* holding what lxml makes of an entity file
EntityV == DtdOk(<<[name |-> <<"e">>, content |-> <<"v">>]>>)

FileMenu ==
    {[path |-> <<"f.properties">>,
      text |-> <<"a", "=", "x", "\n", "c", "=", "z", "\n">>, dtd |-> <<>>],
     [path |-> <<"f.properties">>,
      text |-> <<BOM, "a", "=", "x", "\n", "c", "=", "z", "\n">>,
      dtd |-> <<>>],
     [path |-> <<"h.properties">>,
      text |-> <<"b", "=", "y", "\n">>, dtd |-> <<>>],
     [path |-> <<"g.dtd">>, text |-> <<"<">>, dtd |-> <<EntityV>>],
     [path |-> <<"g.dtd">>, text |-> <<"<">>, dtd |-> <<DtdError(3)>>],
     [path |-> <<"g.dtd">>, text |-> <<BOM, "<">>, dtd |-> <<EntityV>>],
     [path |-> <<"g.dtd">>, text |-> <<BOM, "<">>, dtd |-> <<DtdError(1)>>],
     [path |-> <<"x.txt">>, text |-> <<"x">>, dtd |-> <<>>],
     [path |-> <<"x.txt">>, text |-> <<BOM, "x">>, dtd |-> <<>>],
     [path |-> <<"sub", "n.txt">>, text |-> <<"x">>, dtd |-> <<>>]}

\* the folder holding the chosen files
FolderOf(chosen) ==
    LET At(p) == CHOOSE f \in chosen : f.path = p
    IN  [dirs |-> {Dirname(f.path) : f \in chosen} \ {<<>>},
         text |-> [p \in {f.path : f \in chosen} |-> At(p).text],
         dtd  |-> [p \in {f.path : f \in {g \in chosen : g.dtd # <<>>}} |->
                      At(p).dtd[1]]]

FileFolders ==
    {FolderOf(chosen) :
        chosen \in {c \in SUBSET FileMenu :
                       \A f, g \in c : f.path = g.path => f = g}}

FileDisks ==
    {DiskOf(("de" :> folder), [manifest |-> <<>>, rdf |-> <<>>]) :
        folder \in FileFolders}

InitFiles ==
    /\ disk \in FileDisks
    /\ arg_dir = ExtDir
    /\ locales_only = TRUE
    /\ pc = "off"
    /\ any_errors = FALSE
    /\ msgs = EmptyBag
    /\ result = FALSE
    /\ manifest_dir = <<>>
    /\ ms = NewManifestSet(<<>>)
    /\ loc_dirs = {}
    /\ langs = <<>>
    /\ baseline = NewLanguage(<<>>, BASE_LOC)
    /\ locs = <<>>
    /\ pending = {}
    /\ built = {}
    /\ compared = {}
    /\ prop_pc = "off"
    /\ prop_ll = NewLanguage(<<>>, BASE_LOC)
    /\ prop_data = <<>>
    /\ prop_seen = 0
    /\ file_pc = "walk"
    /\ file_ll = NewLanguage(PropDir, "de")
    /\ file_order = <<>>
    /\ file_seen = 0
    /\ scan_pc = "off"
    /\ scan_value = <<>>
    /\ scan_sc = ScanStart(<<>>)

\* lines 151-155: os.walk lists the files
FilesWalk ==
    /\ file_pc = "walk"
    /\ file_order' \in Orders(WalkFiles(disk, file_ll.loc_dir))
    /\ file_pc' = "files"
    /\ UNCHANGED <<engine, props, scans, file_ll, file_seen>>

\* lines 158-229: one iteration of 'for file_name in loc_files'
FilesCheck ==
    /\ file_pc = "files"
    /\ file_seen < Len(file_order)
    /\ file_ll' = CheckFile(file_ll, disk, file_order[file_seen + 1])
    /\ file_seen' = file_seen + 1
    /\ file_pc' = IF file_ll'.raised THEN "raised" ELSE "files"
    /\ UNCHANGED <<engine, props, scans, file_order>>

\* line 231
FilesReturn ==
    /\ file_pc = "files"
    /\ file_seen = Len(file_order)
    /\ file_pc' = "returned"
    /\ UNCHANGED <<engine, props, scans, file_ll, file_order, file_seen>>

NextFiles ==
    \/ FilesWalk
    \/ FilesCheck
    \/ FilesReturn

SpecFiles == InitFiles /\ [][NextFiles]_vars

(***************************************************************************)
(* The placeholder scan of lines 277-307 on its own, one iteration of the  *)
(* while loop at a time, on the values that hold a '%'.                    *)
(***************************************************************************)
MaxValueLen == 4

ScanChars == {"%", "S", "1", "$", "x"}

\* line 277: the scan is entered for a value with a '%' in it
ScanValues ==
    {v \in UNION {[1..n -> ScanChars] : n \in 1..MaxValueLen} :
        "%" \in Range(v)}

InitScan ==
    /\ disk = DiskOf(<<>>, [manifest |-> <<>>, rdf |-> <<>>])
    /\ arg_dir = ExtDir
    /\ locales_only = TRUE
    /\ pc = "off"
    /\ any_errors = FALSE
    /\ msgs = EmptyBag
    /\ result = FALSE
    /\ manifest_dir = <<>>
    /\ ms = NewManifestSet(<<>>)
    /\ loc_dirs = {}
    /\ langs = <<>>
    /\ baseline = NewLanguage(<<>>, BASE_LOC)
    /\ locs = <<>>
    /\ pending = {}
    /\ built = {}
    /\ compared = {}
    /\ prop_pc = "off"
    /\ prop_ll = NewLanguage(<<>>, BASE_LOC)
    /\ prop_data = <<>>
    /\ prop_seen = 0
    /\ file_pc = "off"
    /\ file_ll = NewLanguage(<<>>, BASE_LOC)
    /\ file_order = <<>>
    /\ file_seen = 0
    /\ scan_pc = "scan"
    /\ scan_value \in ScanValues
    /\ scan_sc = ScanStart(scan_value)

\* lines 280-307: one iteration of the while loop
ScanIterate ==
    /\ scan_pc = "scan"
    /\ ScanGoesOn(scan_value, scan_sc)
    /\ scan_sc' = ScanStep(scan_value, scan_sc)
    /\ UNCHANGED <<engine, props, files, scan_pc, scan_value>>

\* line 280: the loop condition fails, or line 305 left the loop
ScanEnd ==
    /\ scan_pc = "scan"
    /\ ~ScanGoesOn(scan_value, scan_sc)
    /\ scan_pc' = "done"
    /\ UNCHANGED <<engine, props, files, scan_value, scan_sc>>

NextScan ==
    \/ ScanIterate
    \/ ScanEnd

\* the loop is sequential code: an iteration that can run does run
SpecScan == InitScan /\ [][NextScan]_vars /\ WF_vars(NextScan)

(***************************************************************************)
(* validate_loc_files as a function of what it is started on: the ways a   *)
(* call on the directory root can end, "clean" for False returned,         *)
(* "errors" for True returned and "raised" for an exception.               *)
(***************************************************************************)
\* lines 736-741: the base directories and what the registry checks logged
BaseDirsOf(d, only, root) ==
    IF only THEN [dirs |-> {root}, log |-> EmptyBag]
    ELSE LET asked == GetLocBaseDirs(
                          ValidateManifests(NewManifestSet(root), d), d)
         IN  [dirs |-> asked.loc_base_dirs, log |-> asked.log]

\* lines 781-825 for one locale: how the iteration can end
LocaleOutcomes(d, path, lang, b) ==
    {IF l.raised THEN "raised"
     ELSE IF HasError(l.log) \/ l.parsing_errors
                \/ HasError(DiffMsgs(l, b))
     THEN "errors" ELSE "clean" :
        l \in GetLocKeys(d, path, lang)}

\* lines 781-828: the loop over the langs that are left and the return
LoopOutcomes(d, found, b) ==
    LET names == DOMAIN found \ {BASE_LOC}
        can   == UNION {{<<n, e>> : e \in LocaleOutcomes(d, found[n], n, b)} :
                           n \in names}
        runs  == {r \in SUBSET can :
                     \A n \in names :
                        Cardinality({p \in r : p[1] = n}) = 1}
    IN  {IF \E p \in r : p[2] = "raised" THEN "raised"
         ELSE IF \E p \in r : p[2] = "errors" THEN "errors"
         ELSE "clean" : r \in runs}

\* lines 763-828 for the langs found
BaselineOutcomes(d, found, errors_before) ==
    UNION {IF b.raised THEN {"raised"}
           ELSE IF BaselineHasNoKeys(b) \/ BaselineFailed(b, errors_before)
           THEN {"errors"}
           ELSE LoopOutcomes(d, found, b) :
              b \in GetLocKeys(d, found[BASE_LOC], BASE_LOC)}

\* lines 734-828 for the directory root
RunOutcomes(d, only, root) ==
    LET base == BaseDirsOf(d, only, root)
    IN  IF base.dirs = {} THEN {"errors"}
        ELSE UNION {LET found == WalkLangs(d, order, <<>>)
                    IN  IF BASE_LOC \notin DOMAIN found THEN {"errors"}
                        ELSE BaselineOutcomes(d, found, HasError(base.log)) :
                       order \in Orders(base.dirs)}

(***************************************************************************)
(* Properties of validate_loc_files.                                       *)
(***************************************************************************)
\* the kinds of error the comparison with the baseline logs
KeyPresenceKinds == {"key_not_in_baseline", "key_not_in_locale"}
SubsPresenceKinds == {"subs_not_in_baseline", "subs_not_in_locale"}
SubsMismatchKinds == {"subs_differ_from_baseline", "baseline_subs_differ"}
ConsistencyKinds ==
    KeyPresenceKinds \cup SubsPresenceKinds \cup SubsMismatchKinds

\* the kinds of error after which validate_loc_files returns at once
FatalKinds ==
    {"root_missing", "no_localization_directories", "no_language_folders",
     "base_language_missing", "no_keys_in_baseline"}

\* the kinds of diagnostic ManifestSet logs
RegistryKinds ==
    {"main_directory_missing", "chrome_manifest_missing",
     "install_rdf_missing", "invalid_locale_line",
     "duplicate_manifest_locale", "duplicate_rdf_locale", "rdf_syntax_error",
     "manifest_folder_missing", "manifest_folder_not_a_folder",
     "manifest_locale_code_unknown", "rdf_locale_not_in_manifest",
     "rdf_folder_missing", "rdf_folder_not_a_folder",
     "rdf_locale_code_unknown", "folder_not_in_manifest",
     "folder_not_in_rdf"}

\* the number of recorded errors of the given kinds about a key of a locale
ErrorsAbout(lang, key, kinds) ==
    LET About(m) ==
            /\ IsError(m)
            /\ m.lang = lang
            /\ m.key = key
            /\ m.kind \in kinds
    IN  CountMsgs(msgs, About)

RootPath == Normalize(arg_dir)

\* C1: the value returned is True exactly when an error was recorded during
\* the run; warnings do not count.
C1_VerdictIffErrorRecorded ==
    pc = "done" => (result <=> NumErrors(msgs) > 0)

C1_Witness_WarningsOnly ==
    pc = "done" /\ ~result /\ NumWarnings(msgs) > 0 /\ compared # {}

\* C2: for every locale compared with the baseline, a key stored on one
\* side only has an error recorded about it, in both directions; so a run
\* that returns False has compared only locales with the baseline's key set.
C2_KeyDifferencesAreErrors ==
    /\ \A lang \in compared :
          /\ \A k \in DOMAIN locs[lang].keys \ DOMAIN baseline.keys :
                ErrorsAbout(lang, k, {"key_not_in_baseline"}) >= 1
          /\ \A k \in DOMAIN baseline.keys \ DOMAIN locs[lang].keys :
                ErrorsAbout(lang, k, {"key_not_in_locale"}) >= 1
    /\ (pc = "done" /\ ~result) =>
          \A lang \in compared :
             DOMAIN locs[lang].keys = DOMAIN baseline.keys

C2_Witness_KeysDifferBothWays ==
    \E lang \in compared :
       /\ DOMAIN locs[lang].keys \ DOMAIN baseline.keys # {}
       /\ DOMAIN baseline.keys \ DOMAIN locs[lang].keys # {}

\* C3: a key stored with a signature on both sides has exactly one
\* signature-mismatch error recorded when the signatures differ, naming
\* both signatures, and no consistency error when they are equal.
C3_OneMismatchError ==
    \A lang \in compared :
       \A k \in DOMAIN locs[lang].subs \cap DOMAIN baseline.subs :
          IF locs[lang].subs[k] # baseline.subs[k]
          THEN /\ ErrorsAbout(lang, k, SubsMismatchKinds) = 1
               /\ \A m \in DOMAIN msgs :
                     (m.lang = lang /\ m.key = k
                         /\ m.kind \in SubsMismatchKinds)
                     => m.sigs = <<locs[lang].subs[k], baseline.subs[k]>>
          ELSE ErrorsAbout(lang, k, ConsistencyKinds) = 0

\* C4: a key stored on one side only has exactly one error recorded about
\* it by the comparison, also when it has a signature.
C4_OnePresenceError ==
    \A lang \in compared :
       \A k \in (DOMAIN locs[lang].keys \ DOMAIN baseline.keys)
                \cup (DOMAIN baseline.keys \ DOMAIN locs[lang].keys) :
          ErrorsAbout(lang, k, ConsistencyKinds) = 1

\* the fatal conditions, as far as the run has got to see them
FatalCondition ==
    \/ pc # "start" /\ ~Exists(disk, RootPath)
    \/ /\ pc \notin {"start", "dirs"}
       /\ Exists(disk, RootPath)
       /\ loc_dirs = {}
    \/ /\ pc \notin {"start", "dirs", "discover"}
       /\ loc_dirs # {}
       /\ BASE_LOC \notin WalkedNames(disk, loc_dirs)
    \/ /\ BASE_LOC \in built
       /\ ~baseline.raised
       /\ DOMAIN baseline.keys = {}

\* C5: every fatal condition makes the run record an error and return True
\* at once: no target locale is read or compared, and no consistency error
\* is recorded.
C5_FatalConditionsStopTheRun ==
    FatalCondition =>
       /\ pc = "done"
       /\ result
       /\ \E m \in DOMAIN msgs : IsError(m) /\ m.kind \in FatalKinds
       /\ built \subseteq {BASE_LOC}
       /\ compared = {}
       /\ \A m \in DOMAIN msgs : m.kind \notin ConsistencyKinds

C5_Witness_EmptyBaseline ==
    /\ pc = "done"
    /\ BASE_LOC \in built
    /\ DOMAIN baseline.keys = {}
    /\ DOMAIN langs \ {BASE_LOC} # {}

\* C6: no target locale is read before get_loc_keys has returned for the
\* baseline with at least one key and without parse error; a baseline that
\* get_loc_keys returned without keys or with a parse error ends the run
\* with True returned, and no other locale is read or compared.
C6_BaselineBeforeTargets ==
    /\ (built \ {BASE_LOC} # {}) =>
          /\ BASE_LOC \in built
          /\ ~baseline.raised
          /\ DOMAIN baseline.keys # {}
          /\ ~baseline.parsing_errors
    /\ (/\ BASE_LOC \in built
        /\ ~baseline.raised
        /\ (DOMAIN baseline.keys = {} \/ baseline.parsing_errors)) =>
          /\ pc = "done"
          /\ result
          /\ compared = {}
          /\ built = {BASE_LOC}

C6_Witness_BaselineParseError ==
    /\ pc = "done"
    /\ BASE_LOC \in built
    /\ baseline.parsing_errors
    /\ DOMAIN baseline.keys # {}
    /\ DOMAIN langs \ {BASE_LOC} # {}

\* C7: an error recorded by the registry checks does not stop the run: with
\* a baseline that was read without error and has keys, every other folder
\* found is read and compared.
C7_RegistryErrorsDoNotStop ==
    (/\ pc = "done"
     /\ HasError(ms.log)
     /\ BASE_LOC \in built
     /\ ~baseline.parsing_errors
     /\ DOMAIN baseline.keys # {})
    => compared = WalkedNames(disk, loc_dirs) \ {BASE_LOC}

\* how the run has ended
Outcome ==
    IF pc = "raised" THEN "raised" ELSE IF result THEN "errors" ELSE "clean"

\* C8: a root path that names an existing file is replaced by the file's
\* directory without any diagnostic, and the run ends the way a run on
\* that directory ends: a run on an existing path, file or directory, ends
\* in the one way RunOutcomes gives for the directory.
C8_FileStandsForItsDirectory ==
    Exists(disk, RootPath) =>
       LET dir == IF IsDir(disk, RootPath) THEN RootPath
                  ELSE Dirname(RootPath)
       IN  /\ pc \notin {"start", "off"} => manifest_dir = dir
           /\ pc = "dirs" => (msgs = EmptyBag /\ ~any_errors)
           /\ \A m \in DOMAIN msgs : m.kind # "root_missing"
           /\ pc \in {"done", "raised"} =>
                  RunOutcomes(disk, locales_only, dir) = {Outcome}

C8_Witness_ManifestFileGiven ==
    /\ pc = "done"
    /\ ~result
    /\ ~locales_only
    /\ arg_dir = Append(ExtDir, "chrome.manifest")
    /\ compared # {}

\* C9: in locales-only mode validate_manifests is not run, no registry
\* diagnostic is recorded, and the directory given is the one base
\* directory, whose sub-folders are the candidate locales.
C9_LocalesOnlyBypassesRegistry ==
    locales_only =>
       /\ ms.runs = 0
       /\ ms.log = EmptyBag
       /\ \A m \in DOMAIN msgs : m.kind \notin RegistryKinds
       /\ (pc \notin {"start", "dirs", "off"} /\ Exists(disk, RootPath)) =>
             loc_dirs = {manifest_dir}
       /\ pc = "baseline" => DOMAIN langs = WalkedNames(disk, {manifest_dir})

C9_Witness_LocalesOnlyCompared ==
    locales_only /\ pc = "done" /\ compared # {}

(***************************************************************************)
(* Properties of _parse_properties_file.                                   *)
(***************************************************************************)
\* the segment the next loop iteration parses is a record whose key is stored
NextIsDuplicate ==
    /\ prop_pc = "records"
    /\ prop_seen < Len(PropSegments)
    /\ LET line == PropSegments[prop_seen + 1]
       IN  /\ Strip(line) # <<>>
           /\ PropLineMatch(line).ok
           /\ <<PropFileName, PropLineMatch(line).key>>
                  \in DOMAIN prop_ll.keys

NextKey == <<PropFileName, PropLineMatch(PropSegments[prop_seen + 1]).key>>

DuplicateErrors(ll, key) ==
    CopiesIn(ErrorMsg("duplicate_property_key", ll.name, PropFilePath, key),
             ll.log)

\* C10: a record whose key is already stored adds exactly one diagnostic,
\* the duplicate-key error for that key, and leaves the stored values and
\* signatures as they were.
C10_DuplicateKeepsFirst ==
    [][NextIsDuplicate =>
          /\ prop_ll'.keys = prop_ll.keys
          /\ prop_ll'.subs = prop_ll.subs
          /\ DuplicateErrors(prop_ll', NextKey)
                = DuplicateErrors(prop_ll, NextKey) + 1
          /\ BagCardinality(prop_ll'.log) = BagCardinality(prop_ll.log) + 1
          /\ prop_ll'.parsing_errors]_vars

C10_Witness_DuplicateSeen ==
    /\ prop_pc = "returned"
    /\ \E k \in DOMAIN prop_ll.subs :
          /\ DuplicateErrors(prop_ll, k) = 1
          /\ prop_ll.keys[k] = <<"%", "1", "$", "S">>

\* the segment the next loop iteration parses is a record with a key that is
\* not stored yet and a value that is not empty
NextLine == PropSegments[prop_seen + 1]

NextValue == PropLineMatch(NextLine).value

NextIsFresh ==
    /\ prop_pc = "records"
    /\ prop_seen < Len(PropSegments)
    /\ Strip(NextLine) # <<>>
    /\ PropLineMatch(NextLine).ok
    /\ NextKey \notin DOMAIN prop_ll.keys
    /\ Len(NextValue) >= 1

\* the placeholders of a value read from offset i on, left to right, by the
\* grammar '%%' | '%S' | '%<digits>$S': bad is the offset of the first '%'
\* that starts none of the three (-1 when there is none), nums the explicit
\* indexes in the order they occur and anon the number of '%S' before bad
RECURSIVE Placeholders(_, _)
Placeholders(value, i) ==
    IF i >= Len(value) THEN [bad |-> -1, nums |-> <<>>, anon |-> 0]
    ELSE IF value[i + 1] # "%" THEN Placeholders(value, i + 1)
    ELSE LET nd == SpanLen(Drop(value, i + 1), Digits)
         IN  IF i + 2 <= Len(value) /\ value[i + 2] = "%"
             THEN Placeholders(value, i + 2)
             ELSE IF i + 2 <= Len(value) /\ value[i + 2] = "S"
             THEN LET rest == Placeholders(value, i + 2)
                  IN  [rest EXCEPT !.anon = @ + 1]
             ELSE IF /\ nd >= 1
                     /\ i + nd + 3 <= Len(value)
                     /\ value[i + nd + 2] = "$"
                     /\ value[i + nd + 3] = "S"
             THEN LET rest == Placeholders(value, i + nd + 3)
                      n    == ParseInt(SubSeq(value, i + 2, i + nd + 1))
                  IN  [rest EXCEPT !.nums = <<n>> \o @]
             ELSE [bad |-> i, nums |-> <<>>, anon |-> 0]

ImproperPercent(ll, key, pos) ==
    Msg("error", "improper_percent", ll.name, PropFilePath, key, pos, NoSigs)

ImproperPercentErrors(ll) ==
    LET Improper(m) == m.kind = "improper_percent"
    IN  CountMsgs(ll.log, Improper)

\* C11: for a record with a fresh key and a value that is not empty, the
\* first '%' that starts neither '%%' nor '%S' nor '%<digits>$S' adds one
\* improper-'%' error with the caret at the offset of that '%', and neither
\* the value nor a signature is stored; a value without such a '%' adds no
\* improper-'%' error and is stored.
C11_FirstBadPercentRejects ==
    [][NextIsFresh =>
          LET bad == Placeholders(NextValue, 0).bad
          IN  IF bad # -1
              THEN /\ prop_ll'.log
                         = AddMsg(prop_ll.log,
                                  ImproperPercent(prop_ll, NextKey, bad))
                   /\ prop_ll'.keys = prop_ll.keys
                   /\ prop_ll'.subs = prop_ll.subs
              ELSE /\ ImproperPercentErrors(prop_ll')
                         = ImproperPercentErrors(prop_ll)
                   /\ NextKey \in DOMAIN prop_ll'.keys
                   /\ prop_ll'.keys[NextKey] = NextValue]_vars

\* '%S%x' was parsed: one error with the caret under the second '%'
C11_Witness_SecondPercentBad ==
    /\ prop_pc = "returned"
    /\ prop_data = <<"a", "=", "%", "S", "%", "x", "\n">>
    /\ prop_ll.log
          = SetToBag({ImproperPercent(prop_ll, <<PropFileName, <<"a">>>>, 2)})
    /\ DOMAIN prop_ll.keys = {}

\* the largest element of a sequence of naturals, 0 for the empty one
RECURSIVE MaxOf(_)
MaxOf(s) ==
    IF s = <<>> THEN 0
    ELSE LET m == MaxOf(Tail(s)) IN IF Head(s) > m THEN Head(s) ELSE m

TooManyErrors(ll, key) ==
    CopiesIn(ErrorMsg("too_many_substitutions", ll.name, PropFilePath, key),
             ll.log)

\* the next record has a fresh key and a value with '%' whose every '%' is
\* part of a placeholder or an escape
NextScanSucceeds ==
    /\ NextIsFresh
    /\ "%" \in Range(NextValue)
    /\ Placeholders(NextValue, 0).bad = -1

\* C12: after a successful scan the 'too many substitutions' error is added
\* exactly when the largest explicit index, the number of '%S', or their
\* sum is above 10, nothing else is logged, and the value and the signature
\* are stored whether or not the error was added.
C12_CombinedLimit ==
    [][NextScanSucceeds =>
          LET ph       == Placeholders(NextValue, 0)
              maxIndex == MaxOf(ph.nums)
              over     ==
                  \/ maxIndex > MOZILLA_MAX_PROPERTIES_STRING_SUBS
                  \/ ph.anon > MOZILLA_MAX_PROPERTIES_STRING_SUBS
                  \/ maxIndex + ph.anon > MOZILLA_MAX_PROPERTIES_STRING_SUBS
          IN  /\ prop_ll'.log
                    = IF over
                      THEN AddMsg(prop_ll.log,
                                  ErrorMsg("too_many_substitutions",
                                           prop_ll.name, PropFilePath,
                                           NextKey))
                      ELSE prop_ll.log
              /\ NextKey \in DOMAIN prop_ll'.keys
              /\ prop_ll'.keys[NextKey] = NextValue
              /\ NextKey \in DOMAIN prop_ll'.subs
              /\ Len(prop_ll'.subs[NextKey]) = Len(ph.nums)]_vars

\* eleven '%S': one error, the key stored with the empty signature
C12_Witness_ElevenAnonymous ==
    /\ prop_pc = "returned"
    /\ \E k \in DOMAIN prop_ll.subs :
          /\ prop_ll.keys[k]
                = AnonSubs(MOZILLA_MAX_PROPERTIES_STRING_SUBS + 1)
          /\ prop_ll.subs[k] = <<>>
          /\ TooManyErrors(prop_ll, k) = 1

(***************************************************************************)
(* Properties of the signatures validate_loc_files compares.               *)
(***************************************************************************)
\* how often each element occurs in a sequence
SeqBag(s) ==
    [x \in Range(s) |-> Cardinality({i \in DOMAIN s : s[i] = x})]

\* both locales store the property value with '%' and with the same
\* numbered placeholders, in whatever order
SamePlaceholders(l, b, k) ==
    /\ k[1] \in PropertiesFileNames
    /\ "%" \in Range(l.keys[k])
    /\ "%" \in Range(b.keys[k])
    /\ SeqBag(Placeholders(l.keys[k], 0).nums)
          = SeqBag(Placeholders(b.keys[k], 0).nums)

\* C13: the stored signature does not depend on the order of the numbered
\* placeholders in the value: a key whose values in a compared locale and in
\* the baseline have the same numbered placeholders has the same signature
\* on both sides and no consistency error recorded about it.
C13_PlaceholderOrderIsIrrelevant ==
    \A lang \in compared :
       \A k \in DOMAIN locs[lang].keys \cap DOMAIN baseline.keys :
          SamePlaceholders(locs[lang], baseline, k) =>
             /\ k \in DOMAIN locs[lang].subs \cap DOMAIN baseline.subs
             /\ locs[lang].subs[k] = baseline.subs[k]
             /\ ErrorsAbout(lang, k, ConsistencyKinds) = 0

\* '%1$S %2$S' in the baseline against '%2$S %1$S' in a compared locale
C13_Witness_OrderDiffers ==
    \E lang \in compared :
       \E k \in DOMAIN locs[lang].keys \cap DOMAIN baseline.keys :
          /\ SamePlaceholders(locs[lang], baseline, k)
          /\ Placeholders(locs[lang].keys[k], 0).nums = <<2, 1>>
          /\ Placeholders(baseline.keys[k], 0).nums = <<1, 2>>
          /\ locs[lang].subs[k] = <<1, 2>>

(***************************************************************************)
(* Properties of get_loc_keys.                                             *)
(***************************************************************************)
\* the file the next loop iteration of get_loc_keys opens
NextFileName == Basename(file_order[file_seen + 1])

NextFilePath == Normalize(Append(file_ll.loc_dir, NextFileName))

NextFileIsThere ==
    /\ file_pc = "files"
    /\ file_seen < Len(file_order)
    /\ NextFilePath \in Files(disk)

BomError(ll, path) == ErrorMsg("byte_order_marker", ll.name, path, NoKey)

\* the kinds of the diagnostics the step has added
AddedKinds ==
    {m.kind : m \in {x \in DOMAIN file_ll'.log :
                        CopiesIn(x, file_ll'.log) > CopiesIn(x, file_ll.log)}}

\* the kinds of diagnostic each parser can log
DtdKinds ==
    {"dtd_syntax_error", "duplicate_dtd_key", "dtd_invalid_character",
     "blank_dtd_value"}

PropertiesKinds ==
    {"empty_property_file", "duplicate_property_key", "blank_property_value",
     "improper_percent", "too_many_substitutions", "malformed_property_line"}

\* C14: a file that begins with a byte order marker adds exactly one BOM
\* error for its path and is handed to the parser its extension selects all
\* the same: besides the BOM error the step leaves what that parser logs or
\* stores, and the loop goes on to the remaining files.
C14_BomIsReportedAndParsed ==
    [][(NextFileIsThere /\ StartsWithBOM(disk.text[NextFilePath])) =>
          /\ CopiesIn(BomError(file_ll, NextFilePath), file_ll'.log)
                = CopiesIn(BomError(file_ll, NextFilePath), file_ll.log) + 1
          /\ \/ file_ll'.keys # file_ll.keys
             \/ AddedKinds # {"byte_order_marker"}
          /\ AddedKinds \ {"byte_order_marker"} \subseteq
                IF NextFileName \in DtdFileNames THEN DtdKinds
                ELSE IF NextFileName \in PropertiesFileNames
                THEN PropertiesKinds
                ELSE {"not_a_localization_file"}
          /\ ~file_ll'.raised
          /\ file_pc' = "files"
          /\ file_seen' = file_seen + 1
          /\ file_order' = file_order]_vars

\* f.properties with a BOM was read first: its second record is stored, and
\* so is the record of h.properties, read after it
C14_Witness_BomFileFirst ==
    /\ file_pc = "returned"
    /\ Len(file_order) >= 2
    /\ Basename(file_order[1]) = "f.properties"
    /\ CopiesIn(BomError(file_ll, Append(PropDir, "f.properties")),
                file_ll.log) = 1
    /\ <<"f.properties", <<"c">>>> \in DOMAIN file_ll.keys
    /\ <<"h.properties", <<"b">>>> \in DOMAIN file_ll.keys

DtdSyntaxErrors(ll) ==
    LET Syntax(m) == m.kind = "dtd_syntax_error"
    IN  CountMsgs(ll.log, Syntax)

NextExists == prop_pc = "records" /\ prop_seen < Len(PropSegments)

\* the next segment holds whitespace only, or nothing
NextIsBlank ==
    NextExists /\ \A i \in DOMAIN NextLine : NextLine[i] \in Whitespace

\* the next segment is not blank and is no 'key separator value' record
NextIsMalformed ==
    /\ NextExists
    /\ ~NextIsBlank
    /\ ~PropLineMatch(NextLine).ok

MalformedLineError(ll, line) ==
    Msg("error", "malformed_property_line", ll.name, PropFilePath,
        <<PropFileName, line>>, -1, NoSigs)

\* C15: a segment that is not blank and matches no record adds exactly one
\* malformed-line error and stores nothing; a blank segment changes
\* nothing; in both cases the loop goes on to the next segment.
C15_MalformedLineIsDropped ==
    [][/\ NextIsMalformed =>
             /\ prop_ll'.log
                   = AddMsg(prop_ll.log, MalformedLineError(prop_ll, NextLine))
             /\ prop_ll'.keys = prop_ll.keys
             /\ prop_ll'.subs = prop_ll.subs
             /\ prop_pc' = "records"
             /\ prop_seen' = prop_seen + 1
       /\ NextIsBlank =>
             /\ prop_ll' = prop_ll
             /\ prop_pc' = "records"
             /\ prop_seen' = prop_seen + 1]_vars

\* 'oops' in front of a record: one error, and the record is stored
C15_Witness_RecordAfterMalformedLine ==
    /\ prop_pc = "returned"
    /\ prop_data = <<"o", "o", "p", "s", "\n", "a", "=", "x", "\n">>
    /\ prop_ll.log
          = SetToBag({MalformedLineError(prop_ll, <<"o", "o", "p", "s">>)})
    /\ DOMAIN prop_ll.keys = {<<PropFileName, <<"a">>>>}

\* the first character of the line that is no whitespace is '#' or '!'
IsCommentLine(line) ==
    LET s == Drop(line, SpanLen(line, Whitespace))
    IN  s # <<>> /\ s[1] \in {"#", "!"}

\* C17: a line whose first character after the leading whitespace is '#'
\* or '!' is removed before the records are matched, whatever ends it: no
\* stored key and no malformed-line error comes from such a line.
C17_CommentLinesAreRemoved ==
    /\ \A k \in DOMAIN prop_ll.keys : k[2][1] \notin {"#", "!"}
    /\ \A m \in DOMAIN prop_ll.log :
          m.kind = "malformed_property_line" => ~IsCommentLine(m.key[2])

\* C19: every stored signature is sorted in ascending order, holds
\* integers from 1 up only, and has one element for each '%<digits>$S' of
\* the stored value, none for a '%S'.
C19_SignatureSortedAndPositive ==
    \A k \in DOMAIN prop_ll.subs :
       LET sig == prop_ll.subs[k]
       IN  /\ \A i \in 1..(Len(sig) - 1) : sig[i] <= sig[i + 1]
           /\ \A i \in DOMAIN sig : sig[i] >= 1
           /\ SeqBag(sig) = SeqBag(Placeholders(prop_ll.keys[k], 0).nums)

\* the next record has a fresh key and an empty value
NextIsBlankValue ==
    /\ NextExists
    /\ ~NextIsBlank
    /\ PropLineMatch(NextLine).ok
    /\ NextKey \notin DOMAIN prop_ll.keys
    /\ NextValue = <<>>

BlankValueError(ll, key) ==
    ErrorMsg("blank_property_value", ll.name, PropFilePath, key)

\* C20: no stored property value is empty: a record with an empty value
\* adds the blank-value error alone and stores neither value nor
\* signature; and a record whose key is already stored is not scanned for
\* placeholders: it adds neither an improper-'%' nor a limit error.
C20_NoBlankValueStored ==
    [][/\ \A k \in DOMAIN prop_ll'.keys : prop_ll'.keys[k] # <<>>
       /\ NextIsBlankValue =>
             /\ prop_ll'.log
                   = AddMsg(prop_ll.log, BlankValueError(prop_ll, NextKey))
             /\ prop_ll'.keys = prop_ll.keys
             /\ prop_ll'.subs = prop_ll.subs
       /\ NextIsDuplicate =>
             /\ ImproperPercentErrors(prop_ll')
                   = ImproperPercentErrors(prop_ll)
             /\ TooManyErrors(prop_ll', NextKey)
                   = TooManyErrors(prop_ll, NextKey)]_vars

\* 'a=' and then 'a=x': the first adds the error, the second is stored
C20_Witness_BlankThenValue ==
    /\ prop_pc = "returned"
    /\ prop_data = <<"a", "=", "\n", "a", "=", "x", "\n">>
    /\ prop_ll.log
          = SetToBag({BlankValueError(prop_ll, <<PropFileName, <<"a">>>>)})
    /\ prop_ll.keys = (<<PropFileName, <<"a">>>> :> <<"x">>)

(***************************************************************************)
(* Properties of the values without a signature.                           *)
(***************************************************************************)
\* the objects get_loc_keys has returned for
BuiltLanguages ==
    (IF BASE_LOC \in built /\ ~baseline.raised THEN {baseline} ELSE {})
    \cup {locs[lang] : lang \in DOMAIN locs}

\* C18: a property value without '%' is stored together with the empty
\* signature; so a key whose baseline value has no '%' and whose value in a
\* compared locale has '%%' or '%S' only has no consistency error.
C18_NoPercentMeansEmptySignature ==
    /\ \A l \in BuiltLanguages :
          \A k \in DOMAIN l.keys :
             (k[1] \in PropertiesFileNames /\ "%" \notin Range(l.keys[k]))
                => (k \in DOMAIN l.subs /\ l.subs[k] = <<>>)
    /\ \A lang \in compared :
          \A k \in DOMAIN locs[lang].keys \cap DOMAIN baseline.keys :
             (/\ k[1] \in PropertiesFileNames
              /\ "%" \notin Range(baseline.keys[k])
              /\ Placeholders(locs[lang].keys[k], 0).bad = -1
              /\ Placeholders(locs[lang].keys[k], 0).nums = <<>>)
                => ErrorsAbout(lang, k, ConsistencyKinds) = 0

(***************************************************************************)
(* Properties of the entity files.                                         *)
(***************************************************************************)
\* the entity files get_loc_keys has parsed for the language l: the files
\* directly in its folder that lxml accepts
ParsedDtdFiles(l) ==
    {p \in WalkFiles(disk, l.loc_dir) :
        /\ Dirname(p) = l.loc_dir
        /\ Basename(p) \in DtdFileNames
        /\ disk.dtd[p].ok}

\* C21: an entity with a new key and no '<' in its content is stored with
\* that content; when the content is empty a warning, never an error, is
\* recorded about the key and the empty content is stored all the same.
C21_BlankEntityIsWarning ==
    /\ \A l \in BuiltLanguages :
          ~l.raised =>
             \A p \in ParsedDtdFiles(l) :
                LET ents == disk.dtd[p].entities
                IN  \A i \in DOMAIN ents :
                       LET k == <<Basename(p), ents[i].name>>
                       IN  (/\ "<" \notin Range(ents[i].content)
                            /\ \A j \in 1..(i - 1) :
                                  ents[j].name # ents[i].name)
                           => /\ k \in DOMAIN l.keys
                              /\ l.keys[k] = ents[i].content
                              /\ ents[i].content = <<>> =>
                                    /\ CopiesIn(
                                          WarningMsg("blank_dtd_value",
                                                     l.name, p, k),
                                          l.log) = 1
                                    /\ \A m \in DOMAIN l.log :
                                          m.key = k => IsWarning(m)
    /\ \A m \in DOMAIN msgs : m.kind = "blank_dtd_value" => IsWarning(m)

\* a blank entity in the baseline and in a compared locale, and the run
\* has returned False
C21_Witness_BlankEntityBothSides ==
    /\ pc = "done"
    /\ ~result
    /\ \E lang \in compared :
          \E k \in DOMAIN baseline.keys \cap DOMAIN locs[lang].keys :
             /\ k[1] \in DtdFileNames
             /\ baseline.keys[k] = <<>>
             /\ locs[lang].keys[k] = <<>>

(***************************************************************************)
(* Properties of ManifestSet.                                              *)
(***************************************************************************)
\* validate_manifests has run on the directory of the run
Validated == ~locales_only /\ pc \notin {"start", "dirs", "off"}

ManifestPath == Append(manifest_dir, "chrome.manifest")

RdfPath == Append(manifest_dir, "install.rdf")

\* the numbers of the lines of chrome.manifest that register the locale
DeclaringLines(lines, name) ==
    {i \in DOMAIN lines :
        /\ StartsWithLocale(lines[i])
        /\ LocaleLineMatches(lines[i])
        /\ lines[i].words[3] = name}

RegistryErrors(kind, name) ==
    LET About(m) == IsError(m) /\ m.kind = kind /\ m.key = <<name>>
    IN  CountMsgs(ms.log, About)

\* C22: a locale registered by more than one 'locale' line of
\* chrome.manifest has a duplicate-registration error recorded and keeps
\* the directory and the line number of its first line; a locale named
\* more than once in install.rdf has a duplicate-registration error
\* recorded; a locale registered once has none.
C22_DuplicateRegistrationKeepsFirst ==
    /\ (Validated /\ ManifestPath \in Files(disk)) =>
          LET lines == disk.manifest[ManifestPath]
          IN  \A name \in {lines[i].words[3] :
                              i \in {j \in DOMAIN lines :
                                        LocaleLineMatches(lines[j])}} :
                 LET at    == DeclaringLines(lines, name)
                     first == CHOOSE i \in at : \A j \in at : i <= j
                 IN  /\ name \in DOMAIN ms.manifest_lines
                     /\ ms.manifest_lines[name] = first
                     /\ ms.manifest_paths[name]
                           = JoinAbs(manifest_dir, lines[first].uri[1])
                     /\ (Cardinality(at) >= 2) <=>
                           (RegistryErrors("duplicate_manifest_locale",
                                           name) >= 1)
    /\ (/\ Validated
        /\ ManifestPath \in Files(disk)
        /\ RdfPath \in Files(disk)
        /\ disk.rdf[RdfPath].ok) =>
          LET named == disk.rdf[RdfPath].locales
          IN  \A name \in Range(named) :
                 (Cardinality({i \in DOMAIN named : named[i] = name}) >= 2)
                    <=> (RegistryErrors("duplicate_rdf_locale", name) >= 1)

\* en-US registered twice in both files, the second line naming another
\* directory: both errors are there and the first directory is kept
C22_Witness_BaselineTwice ==
    /\ Validated
    /\ RegistryErrors("duplicate_manifest_locale", BASE_LOC) = 1
    /\ RegistryErrors("duplicate_rdf_locale", BASE_LOC) = 1
    /\ ms.manifest_paths[BASE_LOC] = Append(LocaleBase, BASE_LOC)
    /\ Append(ExtDir, "other") \in ms.loc_base_dirs

\* the names of the directories directly inside the base directories
ImmediateNames ==
    {Basename(p) : p \in {q \in disk.dirs :
                             Dirname(q) \in ms.loc_base_dirs}}

\* the locales chrome.manifest and install.rdf register
ManifestNames ==
    {n \in Range(AllNames) :
        DeclaringLines(disk.manifest[ManifestPath], n) # {}}

RdfNames ==
    IF disk.rdf[RdfPath].ok THEN Range(disk.rdf[RdfPath].locales) ELSE {}

FolderDiagnostics(level, kind, name) ==
    CopiesIn(Msg(level, kind, name, NoPath, <<name>>, -1, NoSigs), ms.log)

\* C23: after the registries were validated, a folder directly inside a
\* base directory has one error recorded when chrome.manifest does not
\* register its name and one warning, no error, when install.rdf does not
\* name it; a folder registered in both has neither.
C23_UnregisteredFolders ==
    (Validated /\ ms.manifests_parsed) =>
       \A n \in ImmediateNames :
          /\ FolderDiagnostics("error", "folder_not_in_manifest", n)
                = IF n \in ManifestNames THEN 0 ELSE 1
          /\ FolderDiagnostics("warning", "folder_not_in_manifest", n) = 0
          /\ FolderDiagnostics("warning", "folder_not_in_rdf", n)
                = IF n \in RdfNames THEN 0 ELSE 1
          /\ FolderDiagnostics("error", "folder_not_in_rdf", n) = 0

\* the folder de is in neither file, the folder en-US is in both
C23_Witness_FolderInNeitherFile ==
    /\ Validated
    /\ ms.manifests_parsed
    /\ {BASE_LOC, "de"} \subseteq ImmediateNames
    /\ BASE_LOC \in ManifestNames \cap RdfNames
    /\ "de" \notin ManifestNames \cup RdfNames
    /\ FolderDiagnostics("error", "folder_not_in_manifest", "de") = 1
    /\ FolderDiagnostics("warning", "folder_not_in_rdf", "de") = 1

(***************************************************************************)
(* Properties of the directory walks.                                      *)
(***************************************************************************)
\* C24: only the directories directly inside a base directory become
\* locale candidates: the langs dictionary of validate_loc_files holds no
\* other name, and validate_manifests records its folder diagnostics
\* about no other name.
C24_OnlyImmediateSubdirectories ==
    /\ pc \in {"baseline", "locales", "done", "raised"} =>
          DOMAIN langs \subseteq
             {Basename(p) : p \in {q \in disk.dirs :
                                      Dirname(q) \in loc_dirs}}
    /\ \A m \in DOMAIN ms.log :
          m.kind \in {"folder_not_in_manifest", "folder_not_in_rdf"}
             => m.lang \in ImmediateNames

\* C25: get_loc_keys checks the files directly inside the locale folder
\* only: a file in a folder below it is not in loc_files and makes the
\* call neither log nor raise anything.
C25_WalkIsNotRecursive ==
    /\ \A i \in DOMAIN file_order :
          Dirname(file_order[i]) = file_ll.loc_dir
    /\ ~file_ll.raised
    /\ file_pc # "raised"

(***************************************************************************)
(* The baseline during the loop over the targets.                          *)
(***************************************************************************)
\* C26: once the baseline is built, building a target and comparing it
\* with the baseline leave the key map, the signature map and the
\* parsing_errors flag of the baseline as they were.
C26_BaselineIsFrozen ==
    [][pc = "locales" =>
          /\ baseline'.keys = baseline.keys
          /\ baseline'.subs = baseline.subs
          /\ baseline'.parsing_errors = baseline.parsing_errors]_vars

C26_Witness_TargetWithOtherKeys ==
    /\ pc = "done"
    /\ DOMAIN baseline.keys # {}
    /\ \E lang \in compared :
          /\ DOMAIN locs[lang].keys \ DOMAIN baseline.keys # {}
          /\ DOMAIN locs[lang].subs # DOMAIN baseline.subs

(***************************************************************************)
(* The number of times the registry files are validated.                   *)
(***************************************************************************)
\* the copies of the diagnostics of the kind the ManifestSet recorded
RegistryDiagnostics(kind) ==
    LET About(m) == m.kind = kind
    IN  CountMsgs(ms.log, About)

\* C27: a run that is not locale-only executes validate_manifests at most
\* once (once when it gets as far as the ManifestSet), also when the
\* validation returns early, so a missing chrome.manifest or a missing
\* install.rdf is recorded once.
C27_ValidatedOnce ==
    Validated =>
       /\ ms.runs <= 1
       /\ RegistryDiagnostics("chrome_manifest_missing") <= 1
       /\ RegistryDiagnostics("install_rdf_missing") <= 1

(***************************************************************************)
(* The placeholder scan, iteration by iteration.                           *)
(***************************************************************************)
\* the length of the sequence that starts with the '%' at the 0-based
\* position: 2 for '%%' and '%S', digits + 3 for '%<digits>$S', 0 when
\* the '%' starts none of them
SequenceLen(value, at) ==
    LET IsDigitAt(i) == i <= Len(value) /\ value[i] \in Digits
        nd == CHOOSE n \in 0..Len(value) :
                 /\ \A i \in 1..n : IsDigitAt(at + 1 + i)
                 /\ ~IsDigitAt(at + 2 + n)
    IN  IF at + 2 <= Len(value) /\ value[at + 2] \in {"%", "S"} THEN 2
        ELSE IF /\ nd >= 1
                /\ at + nd + 3 <= Len(value)
                /\ value[at + nd + 2] = "$"
                /\ value[at + nd + 3] = "S"
        THEN nd + 3
        ELSE 0

\* the 0-based position of the first '%' at or after the position, -1
\* when there is none
FirstPercentFrom(value, from) ==
    LET at == {i \in from..(Len(value) - 1) : value[i + 1] = "%"}
    IN  IF at = {} THEN -1
        ELSE CHOOSE i \in at : \A j \in at : i <= j

\* what one iteration does to pos
ScanAdvanced ==
    LET pos  == scan_sc.pos
        used == SequenceLen(scan_value, pos)
    IN  /\ scan_value[pos + 1] = "%"
        /\ IF used = 0
           THEN ~scan_sc'.valid /\ scan_sc'.pos = pos
           ELSE /\ scan_sc'.valid
                /\ scan_sc'.pos = FirstPercentFrom(scan_value, pos + used)
                /\ scan_sc'.pos = -1 \/ scan_sc'.pos > pos

EarlierRecords ==
    {i \in 1..prop_seen :
        /\ PropLineMatch(PropSegments[i]).ok
        /\ PropLineMatch(PropSegments[i]).key = PropLineMatch(NextLine).key}

\* the value is blank or has a malformed placeholder
IsDroppedValue(value) == value = <<>> \/ Placeholders(value, 0).bad # -1

\* the next segment is a record whose key occurred before, in records
\* that were all dropped
NextKeyWasDropped ==
    /\ NextExists
    /\ ~NextIsBlank
    /\ PropLineMatch(NextLine).ok
    /\ EarlierRecords # {}
    /\ \A i \in EarlierRecords :
          IsDroppedValue(PropLineMatch(PropSegments[i]).value)

\* C29: duplicates are detected against the stored keys only: a record
\* whose key occurred before in a record that was dropped, for a blank
\* value or a malformed placeholder, gets no duplicate-key error, and is
\* stored when its own value is not blank and has no malformed
\* placeholder.
C29_DroppedKeyIsNotDuplicate ==
    [][NextKeyWasDropped =>
          /\ DuplicateErrors(prop_ll', NextKey) = 0
          /\ ~IsDroppedValue(NextValue) =>
                /\ NextKey \in DOMAIN prop_ll'.keys
                /\ prop_ll'.keys[NextKey] = NextValue]_vars

C29_Witness_MalformedThenValue ==
    /\ prop_pc = "returned"
    /\ prop_data = <<"a", "=", "%", "x", "\n", "a", "=", "x", "\n">>
    /\ prop_ll.log
          = SetToBag({ImproperPercent(prop_ll, <<PropFileName, <<"a">>>>, 0)})
    /\ prop_ll.keys = (<<PropFileName, <<"a">>>> :> <<"x">>)

(***************************************************************************)
(* The maps and the flag of a LocalizationLanguage.                        *)
(***************************************************************************)
\* the objects get_loc_keys has been called on, to its end or not
CalledLanguages ==
    (IF BASE_LOC \in built THEN {baseline} ELSE {})
    \cup {locs[lang] : lang \in DOMAIN locs}

\* C30: in every LocalizationLanguage the keys of the signature map are
\* keys of the value map and come from property files, never from entity
\* files; parsing_errors is TRUE exactly when an error was recorded for
\* the locale; and when it is TRUE, any_errors of the engine is TRUE.
C30_LanguageMapsAndFlag ==
    \A l \in CalledLanguages :
       /\ DOMAIN l.subs \subseteq DOMAIN l.keys
       /\ \A k \in DOMAIN l.subs : k[1] \in PropertiesFileNames
       /\ l.parsing_errors <=> (\E m \in DOMAIN l.log : IsError(m))
       /\ l.parsing_errors => any_errors

C30_Witness_ErrorsAndSignatures ==
    /\ any_errors
    /\ \E l \in CalledLanguages :
          /\ l.subs # <<>>
          /\ \E k \in DOMAIN l.keys : k[1] \in DtdFileNames
    /\ \E l \in CalledLanguages :
          /\ l.parsing_errors
          /\ l.keys # <<>>

====
